---- MODULE Spec2Model ----
(***************************************************************************)
(* Model of the yt-dlp resolver microservice (src/unnamed/part_006).       *)
(*                                                                         *)
(* One action of the model is one macrotask of the Node.js event loop: an  *)
(* HTTP request arriving, a child-process event, or a timer firing,        *)
(* together with every promise continuation (microtask) it triggers.       *)
(***************************************************************************)
EXTENDS Integers, Sequences, FiniteSets, TLC

\* ------------------------------------------------------------------ bounds
\* Number of HTTP requests that arrive in one behaviour.
MaxReq == 2
\* Number of requests in the behaviours that follow one resolution in detail.
MaxFetchReq == 1
\* Number of /filterPlayable requests, and of identifiers in one.
MaxFilterReq == 1
MaxIds == 5
\* Number of requests when a /filterPlayable batch and other requests mix.
MaxBusyReq == 2
\* Greatest clock value, in seconds, computeUrlTtlSec is called at.
MaxNow == 2
\* Longest descriptor list the normaliser and the picker are called on.
MaxLen == 3
\* Longest cookie jar, in lines, a credential source holds.
MaxJar == 2

\* The expiry timestamps URLs carry: around zero, around the floor, around
\* the ceiling and beyond.
ExpiryValues == {-5, 0, 1, 40, 41, 42, 59, 60, 61, 62, 63, 3629, 3630, 3631, 3632, 3633, 9999}

\* --------------------------------------------------------------- constants
\* MAX_YTDLP = max(2, min(env || VCPUS*2, 8)); the smallest value it takes.
MAX_YTDLP == 2
\* MAX_QUEUE (backpressure ceiling), set through the environment.
MAX_QUEUE == 2
\* YT_CLIENTS, priority order (env YT_CLIENTS="tv,web").
YT_CLIENTS == <<"tv", "web">>
\* COOKIE_CLIENTS default: only "web" uses cookies.
COOKIE_CLIENTS == {"web"}
\* A cookie jar was materialised at startup.
HAS_COOKIES == TRUE
\* The video identifiers requests carry: one that matches YT_ID, one that
\* does not.
GoodId == "dQw4w9WgXcQ"
BadId == "bad"
VideoIds == {GoodId, BadId}
\* Identifiers as a client can send them: the ones above, and the valid one
\* behind a dollar sign or between blanks.
DollarId == "$dQw4w9WgXcQ"
PaddedId == " dQw4w9WgXcQ "
RawIds == VideoIds \cup {DollarId, PaddedId}
\* YT_ID = /^[\w-]{11}$/ on the identifiers above.
YT_ID(id) == id = GoodId
\* String.prototype.trim and replace(/^\$/, "") on the identifiers above.
trim(x) == IF x = PaddedId THEN GoodId ELSE x
stripDollar(x) == IF x = DollarId THEN GoodId ELSE x
\* The identifier a handler tests and resolves: /prewarm trims body.id, the
\* GET routes trim query.id and drop one leading dollar sign.
idOf(ep, raw) == IF ep = "prewarm" THEN trim(raw) ELSE stripDollar(trim(raw))

Min(a, b) == IF a < b THEN a ELSE b
Max(a, b) == IF a > b THEN a ELSE b

\* ------------------------------------------------------------- descriptors
\* A raw format descriptor as yt-dlp reports it.  "" and 0 stand for an
\* absent (falsy) field.
Fmt(fid, ext, proto, h, vc, ac, u) ==
  [format_id |-> fid, ext |-> ext, protocol |-> proto, height |-> h,
   vcodec |-> vc, acodec |-> ac, abr |-> 0, tbr |-> 0, url |-> u,
   manifest_url |-> "", hls_manifest_url |-> "", dash_manifest_url |-> "",
   fragment_base_url |-> ""]

\* Strings of the model that contain ".m3u8" / "m3u8".
HlsUrls == {"https://m/hls.m3u8"}
HlsWords == {"m3u8", "m3u8_native"}

\* The documents a structured-mode run can print.
INFO_MERGED == <<Fmt("18", "mp4", "https", 360, "avc1", "mp4a", "https://v/18")>>
INFO_ADAPTIVE == <<Fmt("136", "mp4", "https", 720, "avc1", "none", "https://v/136"),
                   Fmt("140", "m4a", "https", 0, "none", "mp4a", "https://v/140")>>
INFO_NOURL == <<Fmt("18", "mp4", "https", 360, "avc1", "mp4a", "")>>
Infos == {INFO_MERGED, INFO_ADAPTIVE, INFO_NOURL}
\* A document of another profile: its first descriptor has the key of the
\* one in INFO_MERGED and another bitrate.
INFO_ALT == <<[Fmt("18", "mp4", "https", 360, "avc1", "mp4a", "https://v/18")
                 EXCEPT !.tbr = 700],
              Fmt("22", "mp4", "https", 720, "avc1", "mp4a", "https://v/22")>>
\* The URLs a single-URL run can print: without and with an expire parameter.
DIRECT_URL == "https://v/best"
DIRECT_URL_EXP == "https://v/best?expire=40"

pickUrl(f) ==
  IF f.url # "" THEN f.url
  ELSE IF f.manifest_url # "" THEN f.manifest_url
  ELSE IF f.hls_manifest_url # "" THEN f.hls_manifest_url
  ELSE IF f.dash_manifest_url # "" THEN f.dash_manifest_url
  ELSE f.fragment_base_url

realCodec(c) == c # "" /\ c # "none"

\* fmts.some(f => pickUrl(f))
usable(info) == \E i \in 1..Len(info) : pickUrl(info[i]) # ""

RECURSIVE MaxHeight(_)
MaxHeight(info) ==
  IF info = <<>> THEN 0 ELSE Max(Head(info).height, MaxHeight(Tail(info)))

scoreInfo(info) ==
  MaxHeight(info) * 1000
    + Cardinality({i \in 1..Len(info) :
                     realCodec(info[i].vcodec) /\ ~realCodec(info[i].acodec)})

\* mergeInfos: concatenation in order, keeping the first descriptor of each
\* key (format id, container, protocol, height, locator).
mergeKey(f) == <<f.format_id, f.ext, f.protocol, f.height, pickUrl(f)>>
RECURSIVE mergeInto(_, _)
mergeInto(out, fmts) ==
  IF fmts = <<>> THEN out
  ELSE LET f == Head(fmts)
       IN IF pickUrl(f) = "" \/ (\E j \in 1..Len(out) : mergeKey(out[j]) = mergeKey(f))
          THEN mergeInto(out, Tail(fmts))
          ELSE mergeInto(Append(out, f), Tail(fmts))
RECURSIVE mergeInfos_reversed(_)
mergeInfos_reversed(infos) ==
  IF infos = <<>> THEN <<>>
  ELSE mergeInto(mergeInfos_reversed(Tail(infos)), Head(infos))
RECURSIVE mergeInfos(_)
mergeInfos(infos) ==
  IF infos = <<>> THEN <<>>
  ELSE LET rest == mergeInfos(SubSeq(infos, 1, Len(infos) - 1))
       IN mergeInto(rest, infos[Len(infos)])

\* pickBestMergedMp4(info, maxHeight): 0 when there is none, otherwise the
\* index of the chosen descriptor.
mergedIdx(info) ==
  {i \in 1..Len(info) : /\ info[i].ext = "mp4" /\ pickUrl(info[i]) # ""
                        /\ realCodec(info[i].vcodec) /\ realCodec(info[i].acodec)
                        /\ info[i].height # 0}
pickBestMergedMp4_first(info, maxHeight) ==
  LET m == mergedIdx(info)
  IN IF m = {} THEN 0 ELSE CHOOSE i \in m : \A j \in m : i <= j
pickBestMergedMp4(info, maxHeight) ==
  LET m == mergedIdx(info)
      below == {i \in m : info[i].height <= maxHeight}
      above == {i \in m : info[i].height > maxHeight}
  IN IF below # {}
     THEN CHOOSE i \in below : \A j \in below :
            info[j].height < info[i].height \/ (info[j].height = info[i].height /\ i <= j)
     ELSE IF above # {}
     THEN CHOOSE i \in above : \A j \in above :
            info[j].height > info[i].height \/ (info[j].height = info[i].height /\ i <= j)
     ELSE 0

\* Locators of the model are shorter than 120 characters, so url.slice(0,120)
\* in mergeInfos keeps them whole.

looksLikeHls(url, proto, ext) ==
  proto \in HlsWords \/ ext \in HlsWords \/ url \in HlsUrls
SbIds == {"sb0", "sb1"}
isStoryboard(f) == f.protocol = "mhtml" \/ f.format_id \in SbIds

\* Array.prototype.filter(first index of the key = own index).  The array is
\* bound once (q) and the result is built as a tuple, so that the chain of
\* filter/map/sort in buildFormats is computed stage by stage.
dedupeFirst(seq, Key(_)) ==
  CHOOSE r \in
    { LET keep == {i \in 1..Len(q) : \A j \in 1..(i - 1) : Key(q[j]) # Key(q[i])}
          pos(p) == CHOOSE i \in keep : Cardinality({j \in keep : j < i}) = p - 1
      IN [p \in 1..Cardinality(keep) |-> q[pos(p)]] \o <<>> : q \in {seq \o <<>>} } : TRUE
\* Array.prototype.sort (stable) on an integer key, ascending.
sortAsc(seq, Key(_)) ==
  CHOOSE r \in
    { LET n == Len(q)
          rank(i) == Cardinality({j \in 1..n :
                       Key(q[j]) < Key(q[i]) \/ (Key(q[j]) = Key(q[i]) /\ j < i)}) + 1
      IN [p \in 1..n |-> q[CHOOSE i \in 1..n : rank(i) = p]] \o <<>> : q \in {seq \o <<>>} } : TRUE

videoEntry(f) ==
  LET url == pickUrl(f)
      hls == looksLikeHls(url, f.protocol, f.ext)
  IN [format_id |-> f.format_id,
      extension |-> IF f.ext # "" THEN f.ext ELSE IF hls THEN "m3u8" ELSE "mp4",
      resolution |-> IF f.height # 0 THEN <<f.height, "p">> ELSE <<0, "unknown">>,
      height |-> f.height,
      protocol |-> IF f.protocol # "" THEN f.protocol
                   ELSE IF hls THEN "m3u8_native" ELSE "https",
      has_audio |-> IF hls THEN TRUE ELSE realCodec(f.acodec),
      bandwidth |-> IF f.tbr # 0 THEN f.tbr ELSE f.abr,
      url |-> url]
audioEntry(f) ==
  [format_id |-> f.format_id,
   extension |-> IF f.ext # "" THEN f.ext ELSE "m4a",
   protocol |-> IF f.protocol # "" THEN f.protocol ELSE "https",
   bitrate |-> IF f.abr # 0 THEN f.abr ELSE f.tbr,
   url |-> pickUrl(f)]
mapSeq(seq, F(_)) ==
  CHOOSE r \in {[i \in 1..Len(q) |-> F(q[i])] \o <<>> : q \in {seq \o <<>>}} : TRUE

\* buildFormats without the two dedupe filters
buildFormats_nodedupe(info) ==
  LET vIn == SelectSeq(info, LAMBDA f :
               /\ ~isStoryboard(f)
               /\ (realCodec(f.vcodec) \/ f.height # 0 \/ f.manifest_url # ""
                   \/ f.hls_manifest_url # ""))
      vMap == SelectSeq(mapSeq(vIn, videoEntry), LAMBDA e : e.url # "")
      aIn == SelectSeq(info, LAMBDA f :
               ~isStoryboard(f) /\ ~realCodec(f.vcodec) /\ realCodec(f.acodec))
      aMap == SelectSeq(mapSeq(aIn, audioEntry), LAMBDA e : e.url # "")
  IN [videoFormats |-> sortAsc(vMap, LAMBDA e : e.height),
      audioFormats |-> sortAsc(aMap, LAMBDA e : 0 - e.bitrate)]
buildFormats(info) ==
  LET vIn == SelectSeq(info, LAMBDA f :
               /\ ~isStoryboard(f)
               /\ (realCodec(f.vcodec) \/ f.height # 0 \/ f.manifest_url # ""
                   \/ f.hls_manifest_url # ""))
      vMap == SelectSeq(mapSeq(vIn, videoEntry), LAMBDA e : e.url # "")
      vDed == dedupeFirst(vMap, LAMBDA e : <<e.resolution, e.protocol>>)
      aIn == SelectSeq(info, LAMBDA f :
               ~isStoryboard(f) /\ ~realCodec(f.vcodec) /\ realCodec(f.acodec))
      aMap == SelectSeq(mapSeq(aIn, audioEntry), LAMBDA e : e.url # "")
      aDed == dedupeFirst(aMap, LAMBDA e : <<e.bitrate, e.protocol>>)
  IN [videoFormats |-> sortAsc(vDed, LAMBDA e : e.height),
      audioFormats |-> sortAsc(aDed, LAMBDA e : 0 - e.bitrate)]

\* ------------------------------------------------- cookie auto-selection
\* A cookie jar is a list of cookie lines, each given by its name field;
\* its length stands for t.length.
GoogleAuthNames ==
  {"SID", "HSID", "SSID", "APISID", "SAPISID", "__Secure-1PSID", "__Secure-3PSID",
   "__Secure-3PAPISID"}
CookieNames == {"SID", "CONSENT", "other"}
\* hasAny(str, names): some line has one of the names between two tabs
hasAny(text, names) == \E i \in 1..Len(text) : text[i] \in names
cookieHealth(text) ==
  [googleAuth |-> hasAny(text, GoogleAuthNames),
   ytBasics |-> hasAny(text, {"CONSENT", "YSC", "PREF", "VISITOR_INFO1_LIVE"})]
\* What a source holds: nothing (variable unset, or no file at the path),
\* something that is not what its decoder expects, or an encoded jar.
NoSource == [kind |-> "absent", text |-> <<>>]
BadSource == [kind |-> "bad", text |-> <<>>]
Encoded(text) == [kind |-> "text", text |-> text]
\* What Buffer.from(x, "base64").toString("utf8") makes of text that is not
\* base64: it drops the characters it does not know and decodes the rest.
GarbledText == <<"other">>
\* The three decoders: <<>> when the try block throws, <<text>> otherwise.
\* readFileSync and gunzipSync throw; the base64 decoder never does.
readPath(src) == IF src.kind = "bad" THEN <<>> ELSE <<src.text>>
gunzipB64(src) == IF src.kind = "bad" THEN <<>> ELSE <<src.text>>
fromB64(src) == IF src.kind = "bad" THEN <<GarbledText>> ELSE <<src.text>>
candidate(name, decoded) ==
  IF decoded = <<>> THEN <<>>
  ELSE <<[name |-> name, bytes |-> Len(decoded[1]), text |-> decoded[1],
          health |-> cookieHealth(decoded[1])]>>
\* decodeSource(): <<>> for null, <<chosen>> otherwise.
decodeSource(env) ==
  LET candidates ==
        (IF env.PATH.kind # "absent" THEN candidate("PATH", readPath(env.PATH)) ELSE <<>>)
        \o (IF env.B64_GZ.kind # "absent"
             THEN candidate("B64_GZ", gunzipB64(env.B64_GZ)) ELSE <<>>)
        \o (IF env.B64.kind # "absent" THEN candidate("B64", fromB64(env.B64)) ELSE <<>>)
      authOK == SelectSeq(candidates, LAMBDA c : c.health.googleAuth)
      pickFrom == IF authOK # <<>> THEN authOK ELSE candidates
  IN IF candidates = <<>> THEN <<>>
     ELSE <<sortAsc(pickFrom, LAMBDA c : 0 - c.bytes)[1]>>
\* The startup block: COOKIE_SOURCE and HAS_COOKIES (FORCE_NO_COOKIES unset).
materialize(env) ==
  LET chosen == decodeSource(env)
  IN [cookieSource |-> IF chosen # <<>> THEN chosen[1].name ELSE "NONE",
      hasCookies |-> chosen # <<>>,
      text |-> IF chosen # <<>> THEN chosen[1].text ELSE <<>>]

\* ------------------------------------------------------------------- state
VARIABLES
  running,    \* gate: number of admitted, unsettled jobs
  queue,      \* gate: ids of the jobs waiting, head first
  tasks,      \* every job passed to schedule(), in submission order
  fetches,    \* every call of fetchInfoMergedFast
  reqs,       \* every HTTP request received
  cache,      \* NodeCache: key -> <<>> (absent) or <<value>>
  inflight,   \* Map: key -> 0 (absent) or the fetch its promise wraps
  children,   \* Set of the pids (job ids) of the tracked child processes
  exited,     \* the server process has called process.exit
  arg,        \* the argument of a helper called on its own (<<>>: none)
  ret         \* <<>>, or <<value the helper returned>>
vars == <<running, queue, tasks, fetches, reqs, cache, inflight, children,
          exited, arg, ret>>

Endpoints == {"prewarm", "stream", "stream480", "streamMp4"}
\* parseInt(req.query.max || "720", 10) || 720, clamped; 0 = parameter absent
clampMax(m) == Max(144, Min(2160, IF m = 0 THEN 720 ELSE m))
MaxParam == 0
maxHeightOf(ep) == IF ep = "stream480" THEN 480 ELSE clampMax(MaxParam)
\* A key is text; it is kept as the sequence of its pieces, cut at every "_"
\* and "|", so that two keys are equal exactly when their characters are.
keyPrefix(ep) ==
  CASE ep \in {"prewarm", "stream"} -> <<"stream", "_">>
    [] ep = "stream480" -> <<"stream480", "_">>
    [] ep = "streamMp4" -> <<"mp4", "_", clampMax(MaxParam), "_">>
\* The ?clients= lists requests carry, after parseClientListParam; <<>> when
\* the parameter is absent.
ThreeClients == <<"tv", "web", "ios">>
ClientParams == {<<>>, <<"tv">>, <<"web">>, ThreeClients}
\* opts.clients, or YT_CLIENTS when the list is absent or empty
clientsOr(cl) == IF cl # <<>> THEN cl ELSE YT_CLIENTS
\* `${prefix}_${nocookie ? "NC_" : ""}${clients ? clients.join("|") + "_" : ""}${id}`
\* the pieces of a profile name: "tv|web" is one name that contains a bar
ClientText(c) == IF c = "tv|web" THEN <<"tv", "|", "web">> ELSE <<c>>
\* clients.join("|")
RECURSIVE join(_)
join(cl) ==
  IF Len(cl) = 1 THEN ClientText(cl[1])
  ELSE ClientText(cl[1]) \o <<"|">> \o join(Tail(cl))
cacheKey(ep, nocookie, cl, id) ==
  keyPrefix(ep) \o (IF nocookie THEN <<"NC", "_">> ELSE <<>>)
                \o (IF cl # <<>> THEN join(cl) \o <<"_">> ELSE <<>>)
                \o <<id>>
Keys == {cacheKey(ep, nc, cl, GoodId) :
           ep \in Endpoints, nc \in BOOLEAN, cl \in ClientParams}

willUseCookiesFor(client, requestedUseCookies) ==
  requestedUseCookies /\ HAS_COOKIES /\ client \in COOKIE_CLIENTS

\* The state as one record, so that the steps of a handler compose.
Cur == [running |-> running, queue |-> queue, tasks |-> tasks,
        fetches |-> fetches, reqs |-> reqs, cache |-> cache,
        inflight |-> inflight, children |-> children]
Becomes(s) ==
  /\ running' = s.running /\ queue' = s.queue /\ tasks' = s.tasks
  /\ fetches' = s.fetches /\ reqs' = s.reqs /\ cache' = s.cache
  /\ ~exited
  /\ inflight' = s.inflight /\ children' = s.children
  /\ UNCHANGED <<exited, arg, ret>>

\* -------------------------------------------------------------------- gate
\* A job passed to schedule(): a resolver invocation (spawnYtDlpJSON,
\* spawnYtDlpBestUrl) or the per-identifier job of /filterPlayable.
NewTask(kind, own, oid, ci, client, useCookies, parent) ==
  [kind |-> kind, own |-> own, oid |-> oid, ci |-> ci, client |-> client,
   cookies |-> willUseCookiesFor(client, useCookies),
   parent |-> parent, st |-> "queued", res |-> "none", val |-> <<>>,
   wall |-> FALSE, killed |-> FALSE]
NewFetch(org, key, nocookie, cl, job) ==
  [org |-> org, key |-> key, nc |-> nocookie, cl |-> cl, job |-> job,
   st |-> "probing", first |-> 0, fb |-> 0, authHit |-> FALSE, info |-> <<>>,
   client |-> <<>>, code |-> "none"]

RECURSIVE tick(_)
RECURSIVE schedule(_, _)
RECURSIVE spawnAll(_, _, _, _, _)
\* the synchronous part of fetchInfoMergedFast: one structured-mode
\* invocation per profile
spawnAll(s, f, clients, nocookie, i) ==
  IF i > Len(clients) THEN s
  ELSE spawnAll(schedule(s, NewTask("json", "fetch", f, i, clients[i], ~nocookie, 0)),
                f, clients, nocookie, i + 1)
fetchInfoMergedFast(s, org, key, nocookie, cl, job) ==
  spawnAll([s EXCEPT !.fetches = Append(@, NewFetch(org, key, nocookie, cl, job))],
           Len(s.fetches) + 1, clientsOr(cl), nocookie, 1)

\* queue.shift(): the job taken and the jobs left.
shift_lifo(q) == <<q[Len(q)], SubSeq(q, 1, Len(q) - 1)>>
shift(q) == <<Head(q), Tail(q)>>
\* the loop condition of tick()
canAdmit_le(s) == s.running <= MAX_YTDLP /\ Len(s.queue) > 0
canAdmit_idle(s) == s.running < 1 /\ Len(s.queue) > 0
canAdmit(s) == s.running < MAX_YTDLP /\ Len(s.queue) > 0
\* track(child): children.add(child.pid); the pid of the process of job t is
\* modelled by t.
track(s, t) == [s EXCEPT !.children = @ \cup {t}]
\* the close listener track() registers: children.delete(child.pid)
untrack_keep(s, t) == s
untrack(s, t) == [s EXCEPT !.children = @ \ {t}]
\* fn() of an admitted job, up to its first await: a resolver invocation
\* spawns its process, a /filterPlayable job calls fetchInfoMergedFast.
startJob(s, t) ==
  IF s.tasks[t].kind = "fp"
  THEN fetchInfoMergedFast(s, "filterPlayable", <<"none">>, FALSE, <<>>, t)
  ELSE track(s, t)
\* tick(): admit from the head while a slot is free; an admitted job does
\* running++ and calls fn().
tick(s) ==
  IF canAdmit(s)
  THEN LET t == shift(s.queue)[1]
       IN tick(startJob([s EXCEPT !.queue = shift(@)[2], !.running = @ + 1,
                                  !.tasks[t].st = "running"], t))
  ELSE s
\* schedule(fn): push, then tick.
schedule_notick(s, job) ==
  [s EXCEPT !.tasks = Append(@, job), !.queue = Append(@, Len(s.tasks) + 1)]
schedule(s, job) ==
  tick([s EXCEPT !.tasks = Append(@, job), !.queue = Append(@, Len(s.tasks) + 1)])
\* the finally block of a job: running--, tick.
finishJob_keep(s, t, res, val) ==
  tick([s EXCEPT !.tasks[t].st = "done", !.tasks[t].res = res, !.tasks[t].val = val])
finishJob(s, t, res, val) ==
  tick([s EXCEPT !.tasks[t].st = "done", !.tasks[t].res = res,
                 !.tasks[t].val = val, !.running = @ - 1])

\* ------------------------------------------------------------- cache, TTL
URL_TTL_FALLBACK == 300
\* the defaults of computeUrlTtlSec's options
TTL_FLOOR == 30
TTL_CEIL == 3600
TTL_SAFETY == 30
\* What searchParams.get returns: null (absent), the empty string, text that
\* is not a number, or the decimal text of the integer n.
Absent == [kind |-> "absent", n |-> 0]
EmptyText == [kind |-> "empty", n |-> 0]
WordText == [kind |-> "word", n |-> 0]
NumText(n) == [kind |-> "num", n |-> n]
\* new URL(urlStr): whether it parses, and its two expiry parameters.
ParsedUrl(ok, e1, e2) == [parses |-> ok, expire |-> e1, Expires |-> e2]
URL(urlStr) ==
  IF urlStr = "" THEN ParsedUrl(FALSE, Absent, Absent)
  ELSE IF urlStr = DIRECT_URL_EXP THEN ParsedUrl(TRUE, NumText(40), Absent)
  ELSE ParsedUrl(TRUE, Absent, Absent)
\* a || b on what searchParams.get returns: null and "" are falsy
orElse(a, b) == IF a.kind \in {"absent", "empty"} THEN b ELSE a
\* Number(x): null and "" give 0, other text that is not a number gives NaN
Number(x) ==
  CASE x.kind = "num" -> [finite |-> TRUE, n |-> x.n]
    [] x.kind = "word" -> [finite |-> FALSE, n |-> 0]
    [] OTHER -> [finite |-> TRUE, n |-> 0]
\* u is new URL(urlStr); now is Math.floor(Date.now() / 1000).
computeUrlTtlSec_nofloor(u, now) ==
  LET exp == Number(orElse(u.expire, u.Expires))
  IN IF u.parses /\ exp.finite /\ exp.n > 0
     THEN Min(TTL_CEIL, exp.n - now - TTL_SAFETY)
     ELSE URL_TTL_FALLBACK
computeUrlTtlSec(u, now) ==
  LET exp == Number(orElse(u.expire, u.Expires))
  IN IF u.parses /\ exp.finite /\ exp.n > 0
     THEN Max(TTL_FLOOR, Min(TTL_CEIL, exp.n - now - TTL_SAFETY))
     ELSE URL_TTL_FALLBACK
cacheSet_skip(s, key, value, ttl) == s
cacheSet_fallbackTtl(s, key, value, ttl) ==
  [s EXCEPT !.cache[key] = <<[val |-> value, ttl |-> URL_TTL_FALLBACK]>>]
cacheSet(s, key, value, ttl) ==
  [s EXCEPT !.cache[key] = <<[val |-> value, ttl |-> ttl]>>]
cacheHit_never(s, key) == FALSE
cacheHit(s, key) == s.cache[key] # <<>>

\* --------------------------------------------------------- error messages
\* The messages of the errors a resolver invocation rejects with; the first
\* one ends with the last six lines the process wrote to standard error.
MSG_EXIT == "yt-dlp exit <code> [<mode> client=<c> cookies=<b>]: <stderr tail>"
MSG_SPAWN == "yt-dlp spawn error: <e.message>"
MSG_JSON == "Invalid JSON from yt-dlp: <e.message>"
MSG_NOURL == "No direct URL from yt-dlp -g"
MSG_AUTH == "Auth required"
\* the error text of each route's catch block
authText(ep) ==
  IF ep \in {"prewarm", "stream"}
  THEN "YouTube requires sign-in (anti-bot). Provide cookies."
  ELSE "Auth required for this video"
failText(ep, msg) ==
  CASE ep = "prewarm" -> "Failed to prewarm"
    [] ep = "stream" -> "Failed to fetch formats"
    [] ep = "stream480" -> "Failed to pick 480p stream"
    [] OTHER -> IF msg # "" THEN msg ELSE "Failed to resolve MP4"

\* ---------------------------------------------------------------- replies
\* The catch block of each route.
errStatus_generic(ep, code) == IF ep = "streamMp4" THEN 502 ELSE 500
errStatus(ep, code) ==
  IF code = "AUTH_REQUIRED" THEN 403
  ELSE IF ep = "streamMp4" THEN 502 ELSE 500
respond(s, r, status, code, body, client) ==
  [s EXCEPT !.reqs[r].st = "done", !.reqs[r].status = status,
            !.reqs[r].code = code, !.reqs[r].body = body,
            !.reqs[r].client = client]
\* rejectIfBusy's reply: Retry-After and 503
RETRY_AFTER == 3
busyReply(s, r) ==
  [respond(s, r, 503, "none", <<>>, <<>>)
   EXCEPT !.reqs[r].retryAfter = RETRY_AFTER, !.reqs[r].error = "Busy, please retry"]
\* the 400 replies
badReply(s, r) ==
  [respond(s, r, 400, "none", <<>>, <<>>)
   EXCEPT !.reqs[r].error =
     CASE s.reqs[r].ep = "streamMp4" -> "Bad id"
       [] s.reqs[r].ep = "filterPlayable" -> "Invalid input"
       [] OTHER -> "Missing/invalid video ID"]
respondErr(s, r, code, msg) ==
  [respond(s, r, errStatus(s.reqs[r].ep, code),
           IF code = "AUTH_REQUIRED" THEN code ELSE "none", <<>>, <<>>)
   EXCEPT !.reqs[r].error = IF code = "AUTH_REQUIRED" THEN authText(s.reqs[r].ep)
                            ELSE failText(s.reqs[r].ep, msg)]

\* ------------------------------------------- spawnBestUrlAnyClient (loop)
\* The loop runs for a fetch (fallback of fetchInfoMergedFast) or for a
\* request (/stream480, /streamMp4); its position is kept with its owner.
ownerOf(s, own, oid) == IF own = "fetch" THEN s.fetches[oid] ELSE s.reqs[oid]
anyTry(s, own, oid, i) ==
  LET o == ownerOf(s, own, oid)
  IN schedule(IF own = "fetch"
              THEN [s EXCEPT !.fetches[oid].fb = i, !.fetches[oid].st = "fallback"]
              ELSE [s EXCEPT !.reqs[oid].fb = i, !.reqs[oid].st = "waiturl"],
              NewTask("url", own, oid, i, clientsOr(o.cl)[i], ~o.nc, 0))
\* the profile tried after profile i
anyNext_skip(i) == i + 2
anyNext(i) == i + 1

\* res.redirect(url) after cache.set(cacheKey, url, ttl)
reqRedirect(s, r, url) ==
  LET rq == s.reqs[r]
      \* the model's clock stands at 0 seconds
      ttl == computeUrlTtlSec(URL(url), 0)
  IN respond(cacheSet(s, cacheKey(rq.ep, rq.nc, rq.cl, rq.id), url, ttl),
             r, 302, "none", <<url>>, <<>>)

\* --------------------------------------------------- fetchInfoMergedFast
\* the test /filterPlayable applies to the resolved descriptors
isPlayable(info) ==
  \/ \E i \in 1..Len(info) : looksLikeHls(pickUrl(info[i]), info[i].protocol, info[i].ext)
  \/ /\ \E i \in 1..Len(info) : realCodec(info[i].vcodec) /\ pickUrl(info[i]) # ""
     /\ \E i \in 1..Len(info) : realCodec(info[i].acodec) /\ pickUrl(info[i]) # ""
settledFetch(fe) == fe.st \in {"ok", "fail"}
waiters(s, f) ==
  {r \in 1..Len(s.reqs) : s.reqs[r].st = "wait" /\ s.reqs[r].f = f}

\* /stream after `await inflight.get(cacheKey)`: the replies to the requests
\* ws that awaited the promise wrapping fetch f.
streamReply_first(s, f, ws) ==
  LET fe == s.fetches[f]
  IN [s EXCEPT !.reqs = [r \in DOMAIN s.reqs |->
       IF r \in ws /\ \A q \in ws : r <= q
       THEN IF fe.st = "ok"
            THEN [s.reqs[r] EXCEPT !.st = "done", !.status = 200,
                    !.body = <<buildFormats(fe.info)>>, !.client = fe.client]
            ELSE [s.reqs[r] EXCEPT !.st = "done",
                    !.status = errStatus("stream", fe.code),
                    !.code = fe.code,
                    !.error = IF fe.code = "AUTH_REQUIRED" THEN authText("stream")
                              ELSE failText("stream", "")]
       ELSE s.reqs[r]]]
streamReply(s, f, ws) ==
  LET fe == s.fetches[f]
  IN [s EXCEPT !.reqs = [r \in DOMAIN s.reqs |->
       IF r \in ws
       THEN IF fe.st = "ok"
            THEN [s.reqs[r] EXCEPT !.st = "done", !.status = 200,
                    !.body = <<buildFormats(fe.info)>>, !.client = fe.client]
            ELSE [s.reqs[r] EXCEPT !.st = "done",
                    !.status = errStatus("stream", fe.code),
                    !.code = fe.code,
                    !.error = IF fe.code = "AUTH_REQUIRED" THEN authText("stream")
                              ELSE failText("stream", "")]
       ELSE s.reqs[r]]]

\* What runs when the promise of fetchInfoMergedFast settles: the rest of
\* the route that awaited it; msg is the message of the error thrown, if any.
afterFetch(s, f, msg) ==
  LET fe == s.fetches[f]
      ws == waiters(s, f)
      r1 == CHOOSE r \in ws : TRUE
      ok == fe.st = "ok"
  IN CASE fe.org = "stream" ->
            \* the async IIFE stored in inflight, then every awaiting route
            streamReply(IF ok THEN cacheSet(s, fe.key, buildFormats(fe.info), 60)
                        ELSE s, f, ws)
       [] fe.org = "filterPlayable" ->
            \* the job's async function returns (id or null); then Promise.all
            LET s1 == finishJob(s, fe.job, "ok", <<ok /\ isPlayable(fe.info)>>)
                r == s.tasks[fe.job].oid
                jobs == {t \in 1..Len(s1.tasks) :
                           s1.tasks[t].kind = "fp" /\ s1.tasks[t].oid = r}
            IN IF \A t \in jobs : s1.tasks[t].st = "done"
               THEN respond(s1, r, 200, "none",
                            <<{s1.tasks[t].ci : t \in {u \in jobs : s1.tasks[u].val[1]}}>>,
                            <<>>)
               ELSE s1
       [] fe.org = "prewarm" ->
            IF ok
            THEN respond(cacheSet(s, fe.key, buildFormats(fe.info), 60),
                         r1, 200, "none", <<>>, <<>>)
            ELSE respondErr(s, r1, fe.code, msg)
       [] OTHER ->
            IF ok
            THEN LET i == pickBestMergedMp4(fe.info, maxHeightOf(fe.org))
                 IN IF i # 0 /\ fe.info[i].url # ""
                    THEN reqRedirect(s, r1, fe.info[i].url)
                    ELSE anyTry(s, "req", r1, 1)
            ELSE respondErr(s, r1, fe.code, msg)

fetchOk(s, f, info, client) ==
  afterFetch([s EXCEPT !.fetches[f].st = "ok", !.fetches[f].info = info,
                       !.fetches[f].client = client], f, "")
fetchFail(s, f, code, msg) ==
  afterFetch([s EXCEPT !.fetches[f].st = "fail", !.fetches[f].code = code], f, msg)

\* The structured probes of a fetch, in profile order; a probe is fulfilled
\* when the run printed a document with a usable descriptor.
probe(s, f, i) ==
  CHOOSE t \in 1..Len(s.tasks) :
    /\ s.tasks[t].kind = "json" /\ s.tasks[t].oid = f
    /\ s.tasks[t].ci = i /\ s.tasks[t].parent = 0
isUsable_any(info) == TRUE
isUsable(info) == usable(info)
fulfilled(tk) == tk.res = "ok" /\ isUsable(tk.val[1])
nProbes(s, f) == Len(clientsOr(s.fetches[f].cl))
allSettled(s, f) ==
  \A i \in 1..nProbes(s, f) : s.tasks[probe(s, f, i)].st = "done"
\* Promise.any(all) rejects
anyRejects(s, f) ==
  \A i \in 1..nProbes(s, f) :
    s.tasks[probe(s, f, i)].st = "done" /\ ~fulfilled(s.tasks[probe(s, f, i)])
\* the code property of the AggregateError Promise.any rejects with
AggregateErrorCode == "none"

\* The merged path: every probe settled before the merge window ended.
bestClient_first(s, f) == s.fetches[f].first
bestClient(s, f) ==
  LET succ == {i \in 1..nProbes(s, f) : fulfilled(s.tasks[probe(s, f, i)])}
      sc(i) == scoreInfo(s.tasks[probe(s, f, i)].val[1])
  IN CHOOSE i \in succ : \A j \in succ : sc(j) < sc(i) \/ (sc(j) = sc(i) /\ i <= j)
succInfos(s, f) ==
  LET all == [i \in 1..nProbes(s, f) |-> s.tasks[probe(s, f, i)]]
  IN mapSeq(SelectSeq(all, fulfilled), LAMBDA tk : tk.val[1])
finishMerged(s, f) ==
  fetchOk(s, f, mergeInfos(succInfos(s, f)),
          <<"json", clientsOr(s.fetches[f].cl)[bestClient(s, f)]>>)

\* A probe of fetch f settled.
probeSettled(s, f, t) ==
  LET fe == s.fetches[f]
  IN CASE fe.st = "probing" /\ fulfilled(s.tasks[t]) ->
            LET s1 == [s EXCEPT !.fetches[f].first = s.tasks[t].ci,
                                !.fetches[f].st = "window"]
            IN IF allSettled(s, f) THEN finishMerged(s1, f) ELSE s1
       [] fe.st = "probing" /\ ~fulfilled(s.tasks[t]) ->
            IF anyRejects(s, f) THEN anyTry(s, "fetch", f, 1) ELSE s
       [] fe.st = "window" ->
            IF allSettled(s, f) THEN finishMerged(s, f) ELSE s
       [] OTHER -> s

\* A single-URL invocation of the loop settled.
anySettled(s, own, oid, t, msg) ==
  LET tk == s.tasks[t]
      o == ownerOf(s, own, oid)
      hit == o.authHit \/ tk.res = "auth"
      s1 == IF own = "fetch" THEN [s EXCEPT !.fetches[oid].authHit = hit]
            ELSE [s EXCEPT !.reqs[oid].authHit = hit]
      egCode == IF hit THEN "AUTH_REQUIRED" ELSE "none"
      \* the error the loop throws: a new one on authHit, else lastErr
      egMsg == IF hit THEN MSG_AUTH ELSE msg
  IN IF tk.res = "ok"
     THEN IF own = "fetch"
          THEN LET u == tk.val[1]
                   hls == u \in HlsUrls
               IN fetchOk(s, oid,
                    <<Fmt("best", IF hls THEN "m3u8" ELSE "mp4",
                          IF hls THEN "m3u8" ELSE "https", 0, "unknown", "unknown", u)>>,
                    <<"best-url", tk.client>>)
          ELSE reqRedirect(s, oid, tk.val[1])
     ELSE IF anyNext(tk.ci) <= Len(clientsOr(o.cl))
     THEN anyTry(s1, own, oid, anyNext(tk.ci))
     ELSE IF own = "fetch"
          THEN fetchFail(s1, oid,
                 IF AggregateErrorCode = "AUTH_REQUIRED" \/ egCode = "AUTH_REQUIRED"
                 THEN "AUTH_REQUIRED" ELSE egCode,
                 egMsg)
          ELSE respondErr(s1, oid, egCode, egMsg)

\* --------------------------------------------- resolver process events
\* What a run wrote to standard output: nothing, text that is not JSON, a
\* JSON document (structured mode), a URL line (single-URL mode).
JsonOuts == {"", "garbage", "merged", "adaptive", "nourl"}
UrlOuts == {"", "url", "url-exp"}
\* stdout of a profile that prints INFO_ALT
AltOuts == {"alt"}
ExitCodes == {0, 1}
\* The code the close event carries when the process was ended by a signal
\* (null in the source).
NullCode == -1
\* The codes a run can close with: a process the timer killed closes with the
\* null code.
closeCodes(tk) == IF tk.killed THEN {NullCode} ELSE ExitCodes
\* JSON.parse(out): <<document>>, or <<>> when it throws
parseJSON(out) ==
  CASE out = "merged" -> <<INFO_MERGED>>
    [] out = "adaptive" -> <<INFO_ADAPTIVE>>
    [] out = "nourl" -> <<INFO_NOURL>>
    [] out = "alt" -> <<INFO_ALT>>
    [] OTHER -> <<>>
\* out.trim().split("\n").pop()
lastLine(out) ==
  CASE out = "url" -> DIRECT_URL
    [] out = "url-exp" -> DIRECT_URL_EXP
    [] OTHER -> ""

\* Whether the close handler takes the failure branch.
runFailed(kind, code, out) ==
  IF kind = "json" THEN out = "" /\ code # 0 ELSE code # 0
\* Whether the close handler re-invokes without cookies.
retries_nocheck(allowCookies, wallMsg) == wallMsg
retries_anyFailure(allowCookies, wallMsg) == allowCookies
retries(allowCookies, wallMsg) == wallMsg /\ allowCookies

\* The promise of schedule() settles: the job's finally block, then (for a
\* retry) the job of the invocation that waited for it, then the caller.
settle(s, t, res, val, msg) ==
  LET p == s.tasks[t].parent
      s1 == finishJob(s, t, res, val)
      s2 == IF p # 0 THEN finishJob(s1, p, res, val) ELSE s1
      root == IF p # 0 THEN p ELSE t
      tk == s2.tasks[root]
  IN IF tk.kind = "json" THEN probeSettled(s2, tk.oid, root)
     ELSE anySettled(s2, tk.own, tk.oid, root, msg)

\* child.on("close"): wallMsg is isAuthWallError of the message built from
\* the tail of standard error.
onClose(s, t, code, out, wallMsg) ==
  LET tk == s.tasks[t]
  IN IF runFailed(tk.kind, code, out)
     THEN LET s1 == [s EXCEPT !.tasks[t].wall = wallMsg]
          IN IF retries(tk.cookies, wallMsg)
             THEN schedule([s1 EXCEPT !.tasks[t].st = "waitretry"],
                           NewTask(tk.kind, tk.own, tk.oid, tk.ci, tk.client, FALSE, t))
             ELSE settle(s1, t, IF wallMsg THEN "auth" ELSE "err", <<>>, MSG_EXIT)
     ELSE IF tk.kind = "json"
          THEN IF parseJSON(out) # <<>> THEN settle(s, t, "ok", parseJSON(out), "")
               ELSE settle(s, t, "err", <<>>, MSG_JSON)
          ELSE IF lastLine(out) = "" THEN settle(s, t, "err", <<>>, MSG_NOURL)
               ELSE settle(s, t, "ok", <<lastLine(out)>>, "")

\* clearTimeout(timer): killed tells whether a live process has been sent
\* SIGKILL, and says nothing once the process is gone.
reaped(s, t) == untrack([s EXCEPT !.tasks[t].killed = FALSE], t)

ChildClose(t, code, out, wallMsg) ==
  /\ t \in 1..Len(tasks)
  /\ tasks[t].kind \in {"json", "url"}
  /\ tasks[t].st = "running"
  /\ out \in (IF tasks[t].kind = "json" THEN JsonOuts \cup AltOuts ELSE UrlOuts)
  /\ code \in closeCodes(tasks[t])
  /\ Becomes(onClose(reaped(Cur, t), t, code, out, wallMsg))

\* The timer armed at spawn fires YTDLP_TIMEOUT_MS later while the process
\* has not closed: child.kill("SIGKILL").
TimeoutKill(t) ==
  /\ t \in 1..Len(tasks)
  /\ tasks[t].kind \in {"json", "url"}
  /\ tasks[t].st = "running"
  /\ ~tasks[t].killed
  /\ ~exited
  /\ tasks' = [tasks EXCEPT ![t].killed = TRUE]
  /\ UNCHANGED <<running, queue, fetches, reqs, cache, inflight, children,
                 exited, arg, ret>>

\* child.on("error"): the process could not be spawned.
ChildError(t) ==
  /\ t \in 1..Len(tasks)
  /\ tasks[t].kind \in {"json", "url"}
  /\ tasks[t].st = "running"
  /\ Becomes(settle(reaped(Cur, t), t, "err", <<>>, MSG_SPAWN))

\* The merge-window timer fires before every probe has settled.
MergeWindowTimeout_never(f) == FALSE /\ UNCHANGED vars
MergeWindowTimeout_merged(f) ==
  /\ f \in 1..Len(fetches)
  /\ fetches[f].st = "window"
  /\ Becomes(finishMerged(Cur, f))
MergeWindowTimeout(f) ==
  /\ f \in 1..Len(fetches)
  /\ fetches[f].st = "window"
  /\ LET tk == tasks[probe(Cur, f, fetches[f].first)]
     IN Becomes(fetchOk(Cur, f, tk.val[1], <<"json", tk.client>>))

\* setTimeout(() => inflight.delete(cacheKey), 0) fires.
InflightDelete(k) ==
  /\ k \in Keys
  /\ inflight[k] # 0
  /\ settledFetch(fetches[inflight[k]])
  /\ ~exited
  /\ inflight' = [inflight EXCEPT ![k] = 0]
  /\ UNCHANGED <<running, queue, tasks, fetches, reqs, cache, children,
                 exited, arg, ret>>

\* process.on("SIGTERM" / "SIGINT"): SIGKILL to every tracked pid, then
\* process.exit(0).
Shutdown ==
  /\ ~exited
  /\ tasks' = [t \in DOMAIN tasks |->
                IF t \in children THEN [tasks[t] EXCEPT !.killed = TRUE] ELSE tasks[t]]
  /\ exited' = TRUE
  /\ UNCHANGED <<running, queue, fetches, reqs, cache, inflight, children, arg, ret>>

\* ------------------------------------------------------------------ routes
rejectIfBusy_ge(s) == Len(s.queue) >= MAX_QUEUE
rejectIfBusy(s) == Len(s.queue) > MAX_QUEUE
\* Whether /stream starts a resolution of its own.
startsOwn_always(s, key) == TRUE
startsOwn(s, key) == s.inflight[key] = 0

NewReq(ep, id, nocookie, cl) ==
  [ep |-> ep, id |-> id, nc |-> nocookie, cl |-> cl, st |-> "new", f |-> 0,
   status |-> 0, code |-> "none", body |-> <<>>, client |-> <<>>,
   src |-> "-", fb |-> 0, authHit |-> FALSE, n |-> 0, retryAfter |-> 0,
   raw |-> id, error |-> ""]

route(s0, ep, raw, nocookie, cl) ==
  LET r == Len(s0.reqs) + 1
      id == idOf(ep, raw)
      s == [s0 EXCEPT !.reqs = Append(@, [NewReq(ep, id, nocookie, cl)
                                            EXCEPT !.raw = raw])]
      key == cacheKey(ep, nocookie, cl, id)
      f == Len(s.fetches) + 1
      await(x, src) == [x EXCEPT !.reqs[r].st = "wait", !.reqs[r].f = f,
                                 !.reqs[r].src = src]
  IN IF rejectIfBusy(s) THEN busyReply(s, r)
     ELSE IF ~YT_ID(id) THEN badReply(s, r)
     ELSE IF cacheHit(s, key)
     THEN [respond(s, r, IF ep \in {"stream", "prewarm"} THEN 200 ELSE 302,
                   "none", IF ep = "prewarm" THEN <<>> ELSE <<s.cache[key][1].val>>,
                   <<>>)
           EXCEPT !.reqs[r].src = "HIT"]
     ELSE IF ep = "stream"
     THEN IF startsOwn(s, key)
          THEN [await(fetchInfoMergedFast(s, ep, key, nocookie, cl, 0), "MISS")
                EXCEPT !.inflight[key] = f]
          ELSE LET g == s.inflight[key]
               IN IF settledFetch(s.fetches[g])
                  THEN streamReply([s EXCEPT !.reqs[r].f = g,
                                             !.reqs[r].src = "SETTLED"], g, {r})
                  ELSE [s EXCEPT !.reqs[r].st = "wait", !.reqs[r].f = g,
                                 !.reqs[r].src = "JOIN"]
     ELSE await(fetchInfoMergedFast(s, ep, key, nocookie, cl, 0), "MISS")

Arrive(ep, id, nocookie, cl) ==
  Becomes(route(Cur, ep, id, nocookie, cl))

\* POST /filterPlayable: isArray tells whether body.items is an array, n is
\* the number of distinct valid identifiers in it.
RECURSIVE scheduleIds(_, _, _, _)
scheduleIds(s, r, n, i) ==
  IF i > n THEN s
  ELSE scheduleIds(schedule(s, NewTask("fp", "req", r, i, "", FALSE, 0)), r, n, i + 1)
routeFilter(s0, isArray, n) ==
  LET r == Len(s0.reqs) + 1
      s == [s0 EXCEPT !.reqs = Append(@, [NewReq("filterPlayable", "", FALSE, <<>>)
                                            EXCEPT !.n = n])]
  IN IF rejectIfBusy(s) THEN busyReply(s, r)
     ELSE IF ~isArray THEN badReply(s, r)
     ELSE IF n = 0 THEN respond(s, r, 200, "none", <<{}>>, <<>>)
     ELSE scheduleIds([s EXCEPT !.reqs[r].st = "wait"], r, n, 1)
ArriveFilter(isArray, n) ==
  Becomes(routeFilter(Cur, isArray, n))

Init ==
  /\ running = 0 /\ queue = <<>> /\ tasks = <<>> /\ fetches = <<>>
  /\ reqs = <<>>
  /\ cache = [k \in Keys |-> <<>>]
  /\ inflight = [k \in Keys |-> 0]
  /\ children = {} /\ exited = FALSE
  /\ arg = <<>> /\ ret = <<>>

\* Requests in flight together, each with ?clients=web; the resolver prints
\* one kind of document.  With a single profile every probe has settled when
\* the first one succeeds, so the merge-window timer never decides anything
\* and has no action here.
Next ==
  \/ \E ep \in Endpoints, id \in VideoIds, nocookie \in {FALSE},
        cl \in {<<"web">>} :
       Len(reqs) < MaxReq /\ Arrive(ep, id, nocookie, cl)
  \/ \E t \in 1..Len(tasks), code \in ExitCodes \cup {NullCode}, out \in {"", "merged", "url"},
        wallMsg \in BOOLEAN : ChildClose(t, code, out, wallMsg)
  \/ \E t \in 1..Len(tasks) : ChildError(t)
  \/ \E t \in 1..Len(tasks) : TimeoutKill(t)
  \/ \E k \in Keys : InflightDelete(k)

Spec == Init /\ [][Next]_vars

\* One request; every outcome of every resolver run; a shutdown signal at
\* any moment.
NextFetch ==
  \/ \E ep \in Endpoints, id \in RawIds, nocookie \in BOOLEAN, cl \in {<<>>} :
       Len(reqs) < MaxFetchReq /\ Arrive(ep, id, nocookie, cl)
  \/ \E t \in 1..Len(tasks), code \in ExitCodes \cup {NullCode}, out \in JsonOuts \cup UrlOuts,
        wallMsg \in BOOLEAN : ChildClose(t, code, out, wallMsg)
  \/ \E t \in 1..Len(tasks) : ChildError(t)
  \/ \E t \in 1..Len(tasks) : TimeoutKill(t)
  \/ \E f \in 1..Len(fetches) : MergeWindowTimeout(f)
  \/ \E k \in Keys : InflightDelete(k)
  \/ Shutdown

SpecFetch == Init /\ [][NextFetch]_vars
\* The same, with the merge-window timer firing once it is armed: a timer of
\* a running event loop is not postponed for ever.
SpecFetchLive ==
  SpecFetch /\ WF_vars(\E f \in 1..Len(fetches) : MergeWindowTimeout(f))

\* One /stream request with ?clients=tv,web,ios: three structured probes on
\* two slots, profiles that print different documents.
MergeOuts == {"", "merged", "adaptive", "nourl"} \cup AltOuts
NextMerge ==
  \/ \E nocookie \in BOOLEAN :
       Len(reqs) < MaxFetchReq /\ Arrive("stream", GoodId, nocookie, ThreeClients)
  \/ \E t \in 1..Len(tasks), code \in ExitCodes \cup {NullCode}, out \in MergeOuts \cup UrlOuts,
        wallMsg \in BOOLEAN : ChildClose(t, code, out, wallMsg)
  \/ \E t \in 1..Len(tasks) : ChildError(t)
  \/ \E t \in 1..Len(tasks) : TimeoutKill(t)
  \/ \E f \in 1..Len(fetches) : MergeWindowTimeout(f)
  \/ \E k \in Keys : InflightDelete(k)

SpecMerge == Init /\ [][NextMerge]_vars

\* One request whose resolver processes all end with a non-zero status: they
\* exit with 1, or are killed by the timer and close with the null code.
NonZeroCodes == (ExitCodes \ {0}) \cup {NullCode}
NextNonZero ==
  \/ \E ep \in Endpoints, nocookie \in BOOLEAN :
       Len(reqs) < MaxFetchReq /\ Arrive(ep, GoodId, nocookie, <<>>)
  \/ \E t \in 1..Len(tasks), code \in NonZeroCodes, out \in JsonOuts \cup UrlOuts,
        wallMsg \in BOOLEAN : ChildClose(t, code, out, wallMsg)
  \/ \E t \in 1..Len(tasks) : TimeoutKill(t)
  \/ \E f \in 1..Len(fetches) : MergeWindowTimeout(f)
  \/ \E k \in Keys : InflightDelete(k)

SpecNonZero == Init /\ [][NextNonZero]_vars

\* GET /healthz: the reply reports running and queue.length.
Healthz ==
  /\ ~exited
  /\ ret' = <<[running |-> running, queued |-> Len(queue), maxYtDlp |-> MAX_YTDLP]>>
  /\ UNCHANGED <<running, queue, tasks, fetches, reqs, cache, inflight,
                 children, exited, arg>>

\* One /filterPlayable request.
NextFilter ==
  \/ \E isArray \in BOOLEAN, n \in 0..MaxIds :
       Len(reqs) < MaxFilterReq /\ ArriveFilter(isArray, n)
  \/ \E t \in 1..Len(tasks), code \in ExitCodes \cup {NullCode}, out \in JsonOuts \cup UrlOuts,
        wallMsg \in BOOLEAN : ChildClose(t, code, out, wallMsg)
  \/ \E t \in 1..Len(tasks) : ChildError(t)
  \/ \E t \in 1..Len(tasks) : TimeoutKill(t)
  \/ \E f \in 1..Len(fetches) : MergeWindowTimeout(f)

SpecFilter == Init /\ [][NextFilter]_vars
\* The same, with /healthz read at any moment.
NextHealth == NextFilter \/ Healthz
SpecHealth == Init /\ [][NextHealth]_vars

\* ------------------------------------------------- helpers called alone
\* computeUrlTtlSec on every URL shape and clock value of the bounds.
ExpiryTexts ==
  {Absent, EmptyText, WordText} \cup {NumText(n) : n \in ExpiryValues}
InitTtl ==
  /\ running = 0 /\ queue = <<>> /\ tasks = <<>> /\ fetches = <<>>
  /\ reqs = <<>>
  /\ cache = [k \in Keys |-> <<>>]
  /\ inflight = [k \in Keys |-> 0]
  /\ children = {} /\ exited = FALSE
  /\ arg \in [url : {ParsedUrl(ok, e1, e2) :
                       ok \in BOOLEAN, e1 \in ExpiryTexts, e2 \in ExpiryTexts},
              now : 0..MaxNow]
  /\ ret = <<>>
CallTtl ==
  /\ ret = <<>>
  /\ ret' = <<computeUrlTtlSec(arg.url, arg.now)>>
  /\ UNCHANGED <<running, queue, tasks, fetches, reqs, cache, inflight, children,
                 exited, arg>>
SpecTtl == InitTtl /\ [][CallTtl]_vars

\* Descriptors a document can list: merged mp4 at three heights, video-only,
\* webm, without locator, without height, audio-only (two of one bitrate),
\* a storyboard, an HLS manifest, and a merged mp4 reachable by manifest only.
Descriptors ==
  {Fmt("18", "mp4", "https", 360, "avc1", "mp4a", "https://v/18"),
   Fmt("22", "mp4", "https", 720, "avc1", "mp4a", "https://v/22"),
   Fmt("59", "mp4", "https", 480, "avc1", "mp4a", "https://v/59"),
   Fmt("136", "mp4", "https", 720, "avc1", "none", "https://v/136"),
   Fmt("43", "webm", "https", 480, "vp8", "vorbis", "https://v/43"),
   Fmt("18", "mp4", "https", 360, "avc1", "mp4a", ""),
   Fmt("17", "mp4", "https", 0, "avc1", "mp4a", "https://v/17"),
   [Fmt("140", "m4a", "https", 0, "none", "mp4a", "https://v/140") EXCEPT !.abr = 128],
   [Fmt("251", "webm", "https", 0, "none", "opus", "https://v/251") EXCEPT !.abr = 160],
   [Fmt("139", "m4a", "https", 0, "", "mp4a", "https://v/139") EXCEPT !.abr = 128],
   Fmt("sb0", "mhtml", "mhtml", 90, "none", "none", "https://v/sb0"),
   [Fmt("hls", "", "", 0, "", "", "") EXCEPT !.manifest_url = "https://m/hls.m3u8"],
   [Fmt("95", "mp4", "m3u8", 480, "avc1", "mp4a", "")
      EXCEPT !.manifest_url = "https://m/hls.m3u8"]}
\* the descriptor lists of at most MaxLen entries
RECURSIVE ListsUpTo(_)
ListsUpTo(n) ==
  IF n = 0 THEN {<<>>}
  ELSE LET shorter == ListsUpTo(n - 1)
       IN shorter \cup {Append(l, d) : l \in {x \in shorter : Len(x) = n - 1},
                                        d \in Descriptors}
\* the maxHeight arguments: below every height, and the 480 of /stream480
PickMaxes == {200, 480}

InitPure(args) ==
  /\ running = 0 /\ queue = <<>> /\ tasks = <<>> /\ fetches = <<>>
  /\ reqs = <<>>
  /\ cache = [k \in Keys |-> <<>>]
  /\ inflight = [k \in Keys |-> 0]
  /\ children = {} /\ exited = FALSE
  /\ arg \in args
  /\ ret = <<>>
Returns(v) ==
  /\ ret' = Append(ret, v)
  /\ UNCHANGED <<running, queue, tasks, fetches, reqs, cache, inflight, children,
                 exited, arg>>

\* The startup block on every combination of the three sources, each absent,
\* undecodable, or a jar of at most MaxJar lines.
RECURSIVE JarsUpTo(_)
JarsUpTo(n) ==
  IF n = 0 THEN {<<>>}
  ELSE JarsUpTo(n - 1) \cup {Append(t, c) : t \in {u \in JarsUpTo(n - 1) : Len(u) = n - 1},
                                              c \in CookieNames}
SourceValues == {NoSource, BadSource} \cup {Encoded(t) : t \in JarsUpTo(MaxJar)}
InitCookies == InitPure([PATH : SourceValues, B64_GZ : SourceValues, B64 : SourceValues])
CallCookies ==
  /\ ret = <<>>
  /\ Returns(materialize(arg))
SpecCookies == InitCookies /\ [][CallCookies]_vars

\* The cache key of two requests to one endpoint, for every pair of parameter
\* combinations: two identifiers, the credential-bypass flag, and profile
\* lists as parseClientListParam returns them (any non-empty names without
\* a comma), among them a profile called "NC" and one whose name has a bar.
OtherId == "9bZkp7q19f0"
KeyClientLists == {<<>>, <<"tv">>, <<"NC">>, <<"tv", "web">>, <<"tv|web">>}
KeyParams == [id : {GoodId, OtherId}, nc : BOOLEAN, cl : KeyClientLists]
InitKey == InitPure([ep : Endpoints, p : KeyParams, q : KeyParams])
CallKey ==
  /\ ret = <<>>
  /\ Returns([p |-> cacheKey(arg.ep, arg.p.nc, arg.p.cl, arg.p.id),
              q |-> cacheKey(arg.ep, arg.q.nc, arg.q.cl, arg.q.id)])
SpecKey == InitKey /\ [][CallKey]_vars

\* pickBestMergedMp4 on every list and maxHeight of the bounds; the value
\* returned is the descriptor, <<>> for null.
InitPick == InitPure([info : ListsUpTo(MaxLen), max : PickMaxes])
CallPick ==
  /\ ret = <<>>
  /\ LET i == pickBestMergedMp4(arg.info, arg.max)
     IN Returns(IF i = 0 THEN <<>> ELSE <<arg.info[i]>>)
SpecPick == InitPick /\ [][CallPick]_vars

\* What buildFormats reads from an entry of its own output: the fields both
\* shapes have; the others (ext, vcodec, acodec, abr, tbr, the manifest
\* locators) are undefined on it.
videoAsInput(e) == Fmt(e.format_id, "", e.protocol, e.height, "", "", e.url)
audioAsInput(e) == Fmt(e.format_id, "", e.protocol, 0, "", "", e.url)
asInput(result) ==
  [i \in 1..Len(result.videoFormats) |-> videoAsInput(result.videoFormats[i])]
    \o [i \in 1..Len(result.audioFormats) |-> audioAsInput(result.audioFormats[i])]

\* buildFormats on every list of the bounds, then on its own output.
InitBuild == InitPure([info : ListsUpTo(MaxLen)])
CallBuild ==
  /\ ret = <<>>
  /\ Returns(buildFormats(arg.info))
CallRebuild ==
  /\ Len(ret) = 1
  /\ Returns(buildFormats(asInput(ret[1])))
SpecBuild == InitBuild /\ [][CallBuild \/ CallRebuild]_vars

\* Requests to any endpoint arriving while a /filterPlayable batch occupies
\* the gate.
NextBusy ==
  \/ \E ep \in Endpoints, id \in VideoIds, cl \in {<<"web">>} :
       Len(reqs) < MaxBusyReq /\ Arrive(ep, id, FALSE, cl)
  \/ \E n \in 1..MaxIds :
       Len(reqs) < MaxBusyReq /\ ArriveFilter(TRUE, n)
  \/ \E t \in 1..Len(tasks), code \in ExitCodes \cup {NullCode}, out \in {"", "merged", "url"},
        wallMsg \in BOOLEAN : ChildClose(t, code, out, wallMsg)
  \/ \E t \in 1..Len(tasks) : ChildError(t)
  \/ \E t \in 1..Len(tasks) : TimeoutKill(t)
  \/ \E f \in 1..Len(fetches) : MergeWindowTimeout(f)
  \/ \E k \in Keys : InflightDelete(k)

SpecBusy == Init /\ [][NextBusy]_vars

\* ------------------------------------------------------------ properties
TaskIds == 1..Len(tasks)
FetchIds == 1..Len(fetches)
ReqIds == 1..Len(reqs)
Pending(f) == fetches[f].st \notin {"ok", "fail"}
Admitted == {t \in TaskIds : tasks[t].st \in {"running", "waitretry"}}
LiveProcesses ==
  {t \in TaskIds : tasks[t].kind \in {"json", "url"} /\ tasks[t].st = "running"}
HasLocator(info) ==
  \E i \in 1..Len(info) :
    <<info[i].url, info[i].manifest_url, info[i].hls_manifest_url,
      info[i].dash_manifest_url, info[i].fragment_base_url>> # <<"", "", "", "", "">>
\* a structured probe of fetch f / a single-URL fallback call of fetch f
Probes(f) ==
  {t \in TaskIds : tasks[t].kind = "json" /\ tasks[t].oid = f /\ tasks[t].parent = 0}
Fallbacks(f) ==
  {t \in TaskIds : /\ tasks[t].kind = "url" /\ tasks[t].own = "fetch"
                   /\ tasks[t].oid = f /\ tasks[t].parent = 0}
Succeeded(t) ==
  tasks[t].st = "done" /\ tasks[t].res = "ok"
    /\ (tasks[t].kind = "json" => HasLocator(tasks[t].val[1]))
Failed(t) == tasks[t].st = "done" /\ ~Succeeded(t)
Retries(t) == {u \in TaskIds : tasks[u].parent = t}
ProfilesOf(f) == IF fetches[f].cl # <<>> THEN fetches[f].cl ELSE YT_CLIENTS

\* C1: the /stream requests that wait on one cache key all wait on one and
\* the same resolution, the only unsettled /stream resolution of that key:
\* fetchInfoMergedFast was started once for all of them.
StreamWaiting(k) ==
  {r \in ReqIds : /\ reqs[r].ep = "stream" /\ reqs[r].st = "wait"
                  /\ cacheKey("stream", reqs[r].nc, reqs[r].cl, reqs[r].id) = k}
StreamResolving(k) ==
  {f \in FetchIds : fetches[f].org = "stream" /\ fetches[f].key = k /\ Pending(f)}
C1_StreamCoalesced ==
  \A k \in Keys :
    /\ Cardinality(StreamResolving(k)) <= 1
    /\ StreamWaiting(k) # {} =>
         \E f \in FetchIds :
           /\ StreamResolving(k) = {f}
           /\ \A r \in StreamWaiting(k) : reqs[r].f = f
C1_Witness ==
  \E k \in Keys : Cardinality(StreamWaiting(k)) >= 2

\* C2: for every cache key, at most one resolution that will populate the
\* key is in progress, whichever endpoints the requests arrive on.
C2_OneResolutionPerKey ==
  \A k \in Keys :
    Cardinality({f \in FetchIds : fetches[f].key = k /\ Pending(f)}) <= 1

\* C3: no /stream request is handed a computation that had already settled
\* when the request arrived.
C3_NoSettledEntryServed ==
  \A r \in ReqIds : reqs[r].src # "SETTLED"

\* C4: the jobs admitted and not yet settled never number more than
\* MAX_YTDLP, and neither do the live resolver processes.
C4_GateBound ==
  /\ Cardinality(Admitted) <= MAX_YTDLP
  /\ Cardinality(LiveProcesses) <= MAX_YTDLP
C4_Witness ==
  /\ Cardinality(Admitted) = MAX_YTDLP
  /\ LiveProcesses # {}
  /\ Len(queue) >= 1

\* C5: while none of the jobs submitted since the gate was idle has
\* completed, min(N, MAX_YTDLP) of the N jobs run and the other N - MAX_YTDLP
\* wait.
NoneCompleted == \A t \in TaskIds : tasks[t].st # "done"
C5_BurstSplit ==
  NoneCompleted =>
    /\ Cardinality(Admitted) = Min(Len(tasks), MAX_YTDLP)
    /\ Len(queue) = Max(Len(tasks) - MAX_YTDLP, 0)
C5_Witness ==
  NoneCompleted /\ Len(tasks) >= MAX_YTDLP + 2 /\ Len(queue) = Len(tasks) - MAX_YTDLP

\* C6: jobs are admitted in the order of their schedule() calls: no job has
\* left the queue while a job submitted before it still waits, and the queue
\* holds the waiting jobs oldest first.
C6_Fifo ==
  /\ \A a, b \in TaskIds :
       a < b /\ tasks[b].st # "queued" => tasks[a].st # "queued"
  /\ \A i, j \in 1..Len(queue) : i < j => queue[i] < queue[j]
  /\ {queue[i] : i \in 1..Len(queue)} = {t \in TaskIds : tasks[t].st = "queued"}
C6_Witness ==
  /\ Len(queue) >= 2
  /\ \E c \in TaskIds : tasks[c].st = "done"
  /\ \E a \in TaskIds : tasks[a].st = "running" /\ a > MAX_YTDLP

\* C7: an invocation whose credentialed run hit the authorization wall has
\* exactly one retry, made without credentials; no other invocation has a
\* retry, a retry has none itself, the caller receives the retry's outcome,
\* and a retry that hits the wall too gives AUTH_REQUIRED.
C7_RetryOnce ==
  \A t \in TaskIds :
    tasks[t].kind \in {"json", "url"} =>
      IF tasks[t].parent = 0
      THEN /\ (tasks[t].cookies /\ tasks[t].wall) => Cardinality(Retries(t)) = 1
           /\ ~(tasks[t].cookies /\ tasks[t].wall) => Retries(t) = {}
           /\ \A u \in Retries(t) :
                tasks[t].st = "done" =>
                  /\ tasks[u].st = "done"
                  /\ tasks[t].res = tasks[u].res /\ tasks[t].val = tasks[u].val
      ELSE /\ ~tasks[t].cookies
           /\ tasks[tasks[t].parent].parent = 0
           /\ tasks[tasks[t].parent].cookies /\ tasks[tasks[t].parent].wall
           /\ Retries(t) = {}
           /\ tasks[t].st # "waitretry"
           /\ (tasks[t].st = "done" /\ tasks[t].wall) =>
                tasks[t].res = "auth" /\ tasks[tasks[t].parent].res = "auth"
C7_Witness ==
  \E t \in TaskIds :
    /\ tasks[t].parent # 0 /\ tasks[t].st = "done" /\ tasks[t].wall
    /\ tasks[tasks[t].parent].st = "done"

\* C8: a single-URL fallback call exists only when every structured probe
\* has failed; the calls go through the profiles in list order, one at a
\* time, each after the previous one failed, and stop at the first success,
\* whose URL and profile are what the fetch returns.
C8_FallbackInOrder ==
  \A f \in FetchIds :
    LET n == Len(ProfilesOf(f))
        U == Fallbacks(f)
    IN /\ (\A p \in Probes(f) : Failed(p)) /\ Cardinality(Probes(f)) = n
            => \E t \in U : tasks[t].ci = 1
       /\ \A t \in U :
            /\ \A p \in Probes(f) : Failed(p)
            /\ tasks[t].client = ProfilesOf(f)[tasks[t].ci]
            /\ \A u \in U : tasks[u].ci = tasks[t].ci => u = t
            /\ \A u \in U : tasks[u].ci < tasks[t].ci => Failed(u) /\ u < t
            /\ \A i \in 1..(tasks[t].ci - 1) : \E u \in U : tasks[u].ci = i
            /\ (Failed(t) /\ tasks[t].ci < n) => \E u \in U : tasks[u].ci = tasks[t].ci + 1
            /\ Succeeded(t) =>
                 /\ \A u \in U : tasks[u].ci <= tasks[t].ci
                 /\ fetches[f].st = "ok"
                 /\ fetches[f].client = <<"best-url", ProfilesOf(f)[tasks[t].ci]>>
                 /\ Len(fetches[f].info) = 1
                 /\ fetches[f].info[1].url = tasks[t].val[1]
C8_Witness ==
  \E f \in FetchIds :
    /\ fetches[f].st = "ok"
    /\ Len(ProfilesOf(f)) >= 2
    /\ fetches[f].client = <<"best-url", ProfilesOf(f)[2]>>

\* C9: a failed fetch to which a failure classified AUTH_REQUIRED contributed
\* (of a structured probe or of a fallback call) fails with code
\* AUTH_REQUIRED.
C9_AuthAggregate ==
  \A f \in FetchIds :
    (/\ fetches[f].st = "fail"
     /\ \E t \in Probes(f) \cup Fallbacks(f) :
          tasks[t].st = "done" /\ tasks[t].res = "auth")
      => fetches[f].code = "AUTH_REQUIRED"

\* C10: a fetch fails only when every structured probe failed and the
\* single-URL fallback failed for every profile; once a probe has returned a
\* document with a usable descriptor the fetch neither fails nor falls back,
\* and the probe that won the race returned such a document.
C10_FailsOnlyIfAllFail ==
  \A f \in FetchIds :
    /\ fetches[f].st = "fail" =>
         /\ \A p \in Probes(f) : Failed(p)
         /\ \A i \in 1..Len(ProfilesOf(f)) :
              \E u \in Fallbacks(f) : tasks[u].ci = i /\ Failed(u)
    /\ (\E p \in Probes(f) : Succeeded(p)) =>
         /\ fetches[f].st \in {"window", "ok"}
         /\ Fallbacks(f) = {}
         /\ fetches[f].first # 0
    /\ fetches[f].first # 0 =>
         \E p \in Probes(f) : tasks[p].ci = fetches[f].first /\ Succeeded(p)
    /\ fetches[f].st = "ok" =>
         \/ \E p \in Probes(f) : Succeeded(p) /\ fetches[f].client = <<"json", tasks[p].client>>
         \/ \E u \in Fallbacks(f) : Succeeded(u)
C10_Witness ==
  \E f \in FetchIds :
    /\ fetches[f].st = "ok"
    /\ \E p \in Probes(f) : Succeeded(p)
    /\ \E p \in Probes(f) :
         tasks[p].st = "done" /\ tasks[p].res = "ok" /\ ~HasLocator(tasks[p].val[1])

\* C11: when the process of an admitted invocation is killed by its timer and
\* closes, the invocation does not succeed: it settles as a failure and frees
\* its gate slot (or, on an authorization wall, waits for its retry).
C11_KilledRunFails ==
  [][\A t \in TaskIds :
       (tasks[t].st = "running" /\ tasks[t].killed /\ tasks'[t].st # "running")
         => \/ tasks'[t].st = "waitretry"
            \/ /\ tasks'[t].st = "done"
               /\ tasks'[t].res \in {"err", "auth"}
               /\ running' <= running]_vars

\* C12: a request to any of the five endpoints that arrives while the queue
\* is longer than MAX_QUEUE is answered 503 with Retry-After and changes
\* nothing in the gate, the cache or the in-flight map; one that arrives while
\* the queue length is at most MAX_QUEUE is not answered 503.
C12_Backpressure ==
  [][Len(reqs') = Len(reqs) + 1 =>
       LET r == reqs'[Len(reqs')]
       IN IF Len(queue) > MAX_QUEUE
          THEN /\ r.st = "done" /\ r.status = 503 /\ r.retryAfter > 0
               /\ UNCHANGED <<running, queue, tasks, fetches, cache, inflight>>
          ELSE r.status # 503 /\ r.retryAfter = 0]_vars
\* a request has been turned away while a /filterPlayable batch fills the queue
C12_Witness ==
  /\ Len(reqs) = 2
  /\ reqs[2].status = 503
  /\ reqs[1].ep = "filterPlayable"
  /\ Len(queue) > MAX_QUEUE

\* C13: the queue length never exceeds a constant fixed by MAX_QUEUE and the
\* number of profiles: a request is let in only at a queue length of at most
\* MAX_QUEUE, each profile adds one entry, and each slot can add one retry.
C13_QueueBounded ==
  Len(queue) <= MAX_QUEUE + Len(YT_CLIENTS) + MAX_YTDLP

\* C14: a request to /prewarm, /stream, /stream480 or /streamMp4 whose
\* identifier, surrounding blanks apart, is not 11 characters of
\* [A-Za-z0-9_-] is answered with a 4xx status (503 when the service is busy)
\* and submits nothing to the gate and changes neither the cache nor the
\* in-flight map.
C14_InvalidIdRejected ==
  [][Len(reqs') = Len(reqs) + 1 =>
       LET r == reqs'[Len(reqs')]
       IN (r.ep \in Endpoints /\ r.raw \notin {GoodId, PaddedId}) =>
            /\ r.st = "done"
            /\ r.status \in {400, 503}
            /\ UNCHANGED <<running, queue, tasks, fetches, cache, inflight>>]_vars

\* the code of the error a request's resolution ended with: the error thrown
\* by fetchInfoMergedFast, or by the single-URL sequence the redirect routes
\* run after it
ReqFallbacks(r) ==
  {t \in TaskIds : /\ tasks[t].kind = "url" /\ tasks[t].own = "req"
                   /\ tasks[t].oid = r /\ tasks[t].parent = 0}
ResolutionFailed(r) ==
  /\ reqs[r].f # 0
  /\ \/ fetches[reqs[r].f].st = "fail"
     \/ /\ ReqFallbacks(r) # {}
        /\ \A t \in ReqFallbacks(r) : Failed(t)
        /\ Cardinality(ReqFallbacks(r)) = Len(clientsOr(reqs[r].cl))
ResolutionAuth(r) ==
  \/ fetches[reqs[r].f].st = "fail" /\ fetches[reqs[r].f].code = "AUTH_REQUIRED"
  \/ \E t \in ReqFallbacks(r) : tasks[t].res = "auth"

\* C15: on /prewarm, /stream, /stream480 and /streamMp4 the reply is 403 with
\* code AUTH_REQUIRED exactly when the request's resolution failed with an
\* AUTH_REQUIRED error; any other failed resolution is answered 500 (502 on
\* /streamMp4) without that code.
C15_AuthStatus ==
  \A r \in ReqIds :
    (reqs[r].ep \in Endpoints /\ reqs[r].st = "done") =>
      /\ (reqs[r].status = 403 \/ reqs[r].code = "AUTH_REQUIRED") <=>
           (ResolutionFailed(r) /\ ResolutionAuth(r))
      /\ reqs[r].status = 403 <=> reqs[r].code = "AUTH_REQUIRED"
      /\ (ResolutionFailed(r) /\ ~ResolutionAuth(r)) =>
           /\ reqs[r].status = (IF reqs[r].ep = "streamMp4" THEN 502 ELSE 500)
           /\ reqs[r].code = "none"
\* a redirect request answered 403 after its own single-URL sequence failed
C15_Witness ==
  \E r \in ReqIds :
    /\ reqs[r].st = "done" /\ reqs[r].status = 403
    /\ fetches[reqs[r].f].st = "ok"
    /\ \E t \in ReqFallbacks(r) : tasks[t].res = "auth"

\* C16: the error text of a reply is never text taken from a resolver
\* process's standard error.
C16_NoStderrInBody ==
  \A r \in ReqIds : reqs[r].error # MSG_EXIT

\* what the spec calls the expiry parameter of a URL: expire, or Expires
\* when expire is missing or empty
ExpiryOf(u) == IF u.expire.kind \in {"absent", "empty"} THEN u.Expires ELSE u.expire

\* C17: for a URL whose expiry parameter is a positive number E,
\* computeUrlTtlSec returns max(30, min(3600, E - now - 30)), which lies in
\* [30, 3600] and is 30 when E = now + 40; when the parameter is absent, not
\* a number or not positive, or the URL does not parse, it returns URL_TTL.
C17_TtlFormula ==
  ret # <<>> =>
    LET e == ExpiryOf(arg.url)
        d == e.n - arg.now - 30
    IN IF arg.url.parses /\ e.kind = "num" /\ e.n > 0
       THEN /\ ret[1] = (IF d < 30 THEN 30 ELSE IF d > 3600 THEN 3600 ELSE d)
            /\ ret[1] >= 30 /\ ret[1] <= 3600
            /\ e.n = arg.now + 40 => ret[1] = 30
       ELSE ret[1] = URL_TTL_FALLBACK
\* the spec's example: a URL that expires 40 seconds from now
C17_Witness ==
  /\ ret = <<30>>
  /\ arg.url.parses /\ arg.url.expire = NumText(arg.now + 40)

\* a descriptor pickBestMergedMp4 may return: mp4, with a locator, a real
\* video codec, a real audio codec and a height
Qualifies(f) ==
  /\ f.ext = "mp4"
  /\ <<f.url, f.manifest_url, f.hls_manifest_url, f.dash_manifest_url,
       f.fragment_base_url>> # <<"", "", "", "", "">>
  /\ f.vcodec \notin {"", "none"} /\ f.acodec \notin {"", "none"}
  /\ f.height # 0

\* C18: pickBestMergedMp4 returns a qualifying descriptor of greatest height
\* among those not above maxHeight; when there is none, one of least height
\* among those above maxHeight; when no descriptor qualifies, null.
C18_PickBest ==
  ret # <<>> =>
    LET info == arg.info
        q == {i \in 1..Len(info) : Qualifies(info[i])}
        below == {i \in q : info[i].height <= arg.max}
        above == {i \in q : info[i].height > arg.max}
    IN IF below # {}
       THEN \E i \in below : /\ ret[1] = <<info[i]>>
                             /\ \A j \in below : info[j].height <= info[i].height
       ELSE IF above # {}
       THEN \E i \in above : /\ ret[1] = <<info[i]>>
                             /\ \A j \in above : info[j].height >= info[i].height
       ELSE ret[1] = <<>>
\* the spec's example: heights 360, 480 and 720 with max = 200 give the 360
\* entry
C18_Witness ==
  /\ ret # <<>> /\ ret[1] # <<>>
  /\ arg.max = 200
  /\ {arg.info[i].height : i \in {j \in 1..Len(arg.info) : Qualifies(arg.info[j])}}
       = {360, 480, 720}
  /\ ret[1][1].height = 360

\* the entries buildFormats derives from the input, before dedupe and sort
VideoCandidates(info) ==
  {i \in 1..Len(info) :
     /\ ~isStoryboard(info[i])
     /\ \/ info[i].vcodec \notin {"", "none"} \/ info[i].height # 0
        \/ info[i].manifest_url # "" \/ info[i].hls_manifest_url # ""
     /\ videoEntry(info[i]).url # ""}
AudioCandidates(info) ==
  {i \in 1..Len(info) :
     /\ ~isStoryboard(info[i])
     /\ info[i].vcodec \in {"", "none"} /\ info[i].acodec \notin {"", "none"}
     /\ audioEntry(info[i]).url # ""}
VideoKey(e) == <<e.resolution, e.protocol>>
AudioKey(e) == <<e.bitrate, e.protocol>>

\* C19: in the result of buildFormats no two video entries share (resolution,
\* protocol) and no two audio entries share (bitrate, protocol); each entry
\* is the one made from the first input descriptor with its key, and every
\* key of the input is present; video entries are in non-decreasing order of
\* height, audio entries in non-increasing order of bitrate.
C19_DedupedAndSorted ==
  Len(ret) >= 1 =>
    LET v == ret[1].videoFormats
        a == ret[1].audioFormats
        vc == VideoCandidates(arg.info)
        ac == AudioCandidates(arg.info)
    IN /\ \A i, j \in 1..Len(v) : i # j => VideoKey(v[i]) # VideoKey(v[j])
       /\ \A i, j \in 1..Len(a) : i # j => AudioKey(a[i]) # AudioKey(a[j])
       /\ \A i \in 1..Len(v) : \E c \in vc :
            /\ v[i] = videoEntry(arg.info[c])
            /\ \A d \in vc : VideoKey(videoEntry(arg.info[d])) = VideoKey(v[i]) => c <= d
       /\ \A i \in 1..Len(a) : \E c \in ac :
            /\ a[i] = audioEntry(arg.info[c])
            /\ \A d \in ac : AudioKey(audioEntry(arg.info[d])) = AudioKey(a[i]) => c <= d
       /\ \A c \in vc : \E i \in 1..Len(v) : VideoKey(v[i]) = VideoKey(videoEntry(arg.info[c]))
       /\ \A c \in ac : \E i \in 1..Len(a) : AudioKey(a[i]) = AudioKey(audioEntry(arg.info[c]))
       /\ \A i \in 1..(Len(v) - 1) : v[i].height <= v[i + 1].height
       /\ \A i \in 1..(Len(a) - 1) : a[i].bitrate >= a[i + 1].bitrate
\* a list with two video descriptors of one key, given in descending order of
\* height, has been normalised
C19_Witness ==
  /\ Len(ret) >= 1
  /\ Len(ret[1].videoFormats) = 2
  /\ Cardinality(VideoCandidates(arg.info)) = 3
  /\ videoEntry(arg.info[1]).height > videoEntry(arg.info[3]).height

\* C20: buildFormats applied to the entries it produced returns the same
\* video and audio lists.
C20_Idempotent ==
  Len(ret) = 2 => ret[2] = ret[1]

\* C21: the tracked set holds exactly the processes that were spawned and
\* have not closed, and once the server has exited on SIGTERM or SIGINT every
\* such process has been sent SIGKILL.
C21_ShutdownKillsAll ==
  /\ children = LiveProcesses
  /\ exited => \A t \in LiveProcesses : tasks[t].killed
\* the server exited while two resolver processes were alive
C21_Witness ==
  /\ exited
  /\ Cardinality(LiveProcesses) = 2
  /\ \E t \in TaskIds : tasks[t].st = "done"

\* C22: once a structured probe with a usable descriptor has succeeded, the
\* fetch returns a success when the window timer fires or when the last
\* remaining probe settles, whichever is first: while it waits a probe is
\* still pending, it leaves the wait only as a success, and it does not wait
\* for a probe that never settles.
C22_WindowBounded ==
  /\ [](\A f \in FetchIds :
          fetches[f].st = "window" => \E p \in Probes(f) : tasks[p].st # "done")
  /\ [][\A f \in FetchIds :
          fetches[f].st = "window" => fetches'[f].st \in {"window", "ok"}]_vars
  /\ (Len(fetches) >= 1 /\ fetches[1].st = "window")
       ~> ((Len(fetches) >= 1 /\ fetches[1].st = "ok") \/ exited)
\* the fetch returned while a straggling probe was still running
C22_Witness ==
  /\ ~exited
  /\ Len(fetches) >= 1 /\ fetches[1].st = "ok"
  /\ \E p \in Probes(1) : Succeeded(p)
  /\ \E p \in Probes(1) : tasks[p].st = "running"


\* ---- merged and fast path of fetchInfoMergedFast (C23, C24, C25)
\* A structured probe, given as its record, ended with a usable document.
SucceededRec(tk) ==
  tk.st = "done" /\ tk.res = "ok" /\ tk.val # <<>> /\ HasLocator(tk.val[1])
\* The probe of fetch f for the profile at place i of its list.
ProbeAt(f, i) == CHOOSE t \in Probes(f) : tasks[t].ci = i
\* The dedup key of a descriptor and the score of a document, as the
\* specification words them.
DedupKey(d) == <<d.format_id, d.ext, d.protocol, d.height, pickUrl(d)>>
ScoreOf(info) ==
  LET hs == {info[i].height : i \in 1..Len(info)} \cup {0}
  IN (CHOOSE h \in hs : \A g \in hs : g <= h) * 1000
       + Cardinality({i \in 1..Len(info) :
            /\ info[i].vcodec \notin {"", "none"}
            /\ info[i].acodec \in {"", "none"}})
\* Fetch f returns in this step along the fast path (some probe is still
\* unsettled afterwards) or along the merged path (all are settled).
ReturnsOk(f) ==
  /\ fetches[f].st \in {"probing", "window"} /\ fetches'[f].st = "ok"
  /\ \E p \in Probes(f) : SucceededRec(tasks'[p])
FastReturn(f) == ReturnsOk(f) /\ \E p \in Probes(f) : tasks'[p].st # "done"
MergedReturn(f) == ReturnsOk(f) /\ \A p \in Probes(f) : tasks'[p].st = "done"

\* C23: when the merge window elapses before every structured probe has
\* settled, the fetch returns exactly the document and the profile label of
\* the probe that succeeded first (the one whose success opened the window),
\* whatever other probes succeeded inside the window.
C23_FastPathFirstOnly ==
  /\ [][\A f \in FetchIds :
          (fetches[f].st = "probing" /\ fetches'[f].st = "window") =>
             /\ \A p \in Probes(f) :
                  SucceededRec(tasks'[p]) <=> tasks[p].ci = fetches'[f].first
             /\ \A p \in Probes(f) : ~SucceededRec(tasks[p])]_vars
  /\ [][\A f \in FetchIds :
          fetches[f].st = "window" => fetches'[f].first = fetches[f].first]_vars
  /\ [][\A f \in FetchIds :
          FastReturn(f) =>
             LET p1 == ProbeAt(f, fetches[f].first)
             IN /\ fetches[f].st = "window"
                /\ fetches'[f].info = tasks[p1].val[1]
                /\ fetches'[f].client = <<"json", ProfilesOf(f)[tasks[p1].ci]>>]_vars
C23_Witness ==
  /\ Len(fetches) = 1 /\ fetches[1].st = "ok"
  /\ \E p, q, u \in Probes(1) :
       /\ Succeeded(p) /\ Succeeded(q) /\ tasks[u].st # "done"
       /\ tasks[p].val[1] # tasks[q].val[1]
       /\ fetches[1].info = tasks[p].val[1]
       /\ tasks[p].ci > tasks[q].ci


\* C24: when every structured probe settles before the merge window elapses,
\* the returned list holds exactly one descriptor for each dedup key that a
\* descriptor with a locator of a successful probe has, every returned
\* descriptor is such a descriptor, and of descriptors with one key the one
\* of the earliest profile (its first with that key) is the one kept.
C24_MergedSuperset ==
  [][\A f \in FetchIds :
       MergedReturn(f) =>
         LET L == fetches'[f].info
             ok == {p \in Probes(f) : SucceededRec(tasks'[p])}
             doc(p) == tasks'[p].val[1]
             has(p, k) == \E i \in 1..Len(doc(p)) :
                            pickUrl(doc(p)[i]) # "" /\ DedupKey(doc(p)[i]) = k
         IN /\ \A p \in ok : \A i \in 1..Len(doc(p)) :
                 pickUrl(doc(p)[i]) # "" =>
                   Cardinality({j \in 1..Len(L) :
                                  DedupKey(L[j]) = DedupKey(doc(p)[i])}) = 1
            /\ \A j, k \in 1..Len(L) : j # k => DedupKey(L[j]) # DedupKey(L[k])
            /\ \A j \in 1..Len(L) :
                 /\ pickUrl(L[j]) # ""
                 /\ \E p \in ok :
                      /\ has(p, DedupKey(L[j]))
                      /\ \A q \in ok : has(q, DedupKey(L[j])) => tasks[p].ci <= tasks[q].ci
                      /\ \E i \in 1..Len(doc(p)) :
                           /\ doc(p)[i] = L[j]
                           /\ \A h \in 1..(i - 1) :
                                pickUrl(doc(p)[h]) = ""
                                  \/ DedupKey(doc(p)[h]) # DedupKey(L[j])]_vars
C24_Witness ==
  /\ Len(fetches) = 1 /\ fetches[1].st = "ok"
  /\ \A p \in Probes(1) : tasks[p].st = "done"
  /\ \E p, q, u \in Probes(1) :
       /\ tasks[p].ci < tasks[q].ci
       /\ Succeeded(p) /\ tasks[p].val[1] = INFO_ALT
       /\ Succeeded(q) /\ tasks[q].val[1] = INFO_MERGED
       /\ Failed(u) /\ tasks[u].res = "ok"
  /\ fetches[1].info = INFO_ALT


\* C25: on the merged path the label returned is the profile of the
\* successful probe with the greatest score (greatest height x 1000 + number
\* of descriptors with a real video codec and no real audio codec), the
\* earliest profile among equal scores, whichever probe finished first.
C25_WinnerLabel ==
  [][\A f \in FetchIds :
       MergedReturn(f) =>
         LET ok == {p \in Probes(f) : SucceededRec(tasks'[p])}
             sc(p) == ScoreOf(tasks'[p].val[1])
         IN \E p \in ok :
              /\ \A q \in ok : sc(q) <= sc(p)
              /\ \A q \in ok : sc(q) = sc(p) => tasks[p].ci <= tasks[q].ci
              /\ fetches'[f].client = <<"json", ProfilesOf(f)[tasks[p].ci]>>]_vars
C25_Witness ==
  /\ Len(fetches) = 1 /\ fetches[1].st = "ok"
  /\ \A p \in Probes(1) : Succeeded(p)
  /\ fetches[1].first = 1
  /\ tasks[ProbeAt(1, 1)].val[1] = INFO_MERGED
  /\ tasks[ProbeAt(1, 2)].val[1] = INFO_ALT
  /\ tasks[ProbeAt(1, 3)].val[1] = INFO_ALT
  /\ fetches[1].client = <<"json", "web">>


\* C26: the /stream requests that await one resolution all get its outcome.
\* Once the resolution has settled each of them has been answered; after a
\* success each has status 200, the normalized result of the resolution and
\* its winning-profile label; after a failure each has an error status, and
\* the same one.
Coalesced(f) == {r \in ReqIds : reqs[r].ep = "stream" /\ reqs[r].f = f}
C26_SameOutcome ==
  \A f \in FetchIds :
    /\ settledFetch(fetches[f]) => \A r \in Coalesced(f) : reqs[r].st = "done"
    /\ \A r \in Coalesced(f) :
         reqs[r].st = "done" =>
           /\ settledFetch(fetches[f])
           /\ fetches[f].st = "ok" =>
                /\ reqs[r].status = 200
                /\ reqs[r].body = <<buildFormats(fetches[f].info)>>
                /\ reqs[r].client = fetches[f].client
           /\ fetches[f].st = "fail" => reqs[r].status \in {403, 500}
    /\ \A r, q \in Coalesced(f) :
         (reqs[r].st = "done" /\ reqs[q].st = "done") =>
            /\ reqs[r].status = reqs[q].status /\ reqs[r].body = reqs[q].body
            /\ reqs[r].client = reqs[q].client /\ reqs[r].code = reqs[q].code
C26_Witness ==
  \E f \in FetchIds :
    /\ fetches[f].st = "ok"
    /\ \E r, q \in Coalesced(f) :
         /\ r # q /\ reqs[r].src = "MISS" /\ reqs[q].src = "JOIN"
         /\ reqs[r].st = "done" /\ reqs[q].st = "done" /\ reqs[q].status = 200


KeyOf(q) == cacheKey(q.ep, q.nc, q.cl, q.id)
AnsweredNow(r) == reqs[r].st # "done" /\ reqs'[r].st = "done"
C28_CacheWrittenOnSuccess ==
  /\ [][\A k \in Keys :
          cache'[k] # cache[k] =>
            /\ \A j \in Keys \ {k} : cache'[j] = cache[j]
            /\ \E r \in ReqIds :
                 /\ AnsweredNow(r) /\ KeyOf(reqs[r]) = k
                 /\ reqs'[r].status \in {200, 302}]_vars
  /\ [][(\E r \in ReqIds : AnsweredNow(r) /\ reqs'[r].status \notin {200, 302})
          => cache' = cache]_vars
  /\ [][\A f \in FetchIds :
          (/\ fetches[f].org \in {"stream", "prewarm"}
           /\ fetches[f].st # "ok" /\ fetches'[f].st = "ok") =>
             cache'[fetches[f].key] =
               <<[val |-> buildFormats(fetches'[f].info), ttl |-> 60]>>]_vars
C28_Witness ==
  \E r \in ReqIds :
    /\ reqs[r].ep = "prewarm" /\ reqs[r].status = 200
    /\ cache[KeyOf(reqs[r])] # <<>>
    /\ cache[KeyOf(reqs[r])][1].ttl = 60
    /\ cache[KeyOf(reqs[r])][1].val.videoFormats[1].format_id = "best"


\* C29: when a process run ends in a failure whose message is not an
\* authorization-wall message (spawn failure, kill by the timer, invalid
\* output, no URL, another non-zero exit), no other process is started for
\* it and the invocation rejects without the AUTH_REQUIRED code, which is
\* also what the invocation that waited for it as its retry rejects with; a
\* run is followed by a retry only if it passed credentials and failed on
\* the authorization wall.
RunEnds(t) ==
  /\ tasks[t].kind \in {"json", "url"}
  /\ tasks[t].st = "running" /\ tasks'[t].st # "running"
RetriedNow(t) ==
  \/ tasks'[t].st = "waitretry"
  \/ \E u \in (Len(tasks) + 1)..Len(tasks') : tasks'[u].parent = t
C29_OnlyAuthWallRetried ==
  [][\A t \in TaskIds :
       RunEnds(t) =>
         /\ RetriedNow(t) => (tasks[t].cookies /\ tasks'[t].wall /\ tasks[t].parent = 0)
         /\ (tasks'[t].st = "done" /\ tasks'[t].res # "ok" /\ ~tasks'[t].wall) =>
              /\ ~RetriedNow(t)
              /\ tasks'[t].res = "err"
              /\ tasks[t].parent # 0 =>
                   /\ tasks'[tasks[t].parent].st = "done"
                   /\ tasks'[tasks[t].parent].res = "err"]_vars
C29_Witness ==
  /\ \E t \in TaskIds :
       /\ tasks[t].cookies /\ tasks[t].st = "done" /\ tasks[t].res = "err"
       /\ ~tasks[t].wall /\ Retries(t) = {}
  /\ \E t \in TaskIds :
       /\ tasks[t].parent # 0 /\ tasks[t].st = "done" /\ tasks[t].res = "err"
       /\ ~tasks[t].wall


\* C30: an invocation that ended in failure after one of its runs met the
\* authorization wall (its only run, made without credentials, or its
\* credentialed run, whose retry then failed too) rejects with the code
\* AUTH_REQUIRED.
C30_AuthWallSurfaced ==
  \A t \in TaskIds :
    (/\ tasks[t].kind \in {"json", "url"} /\ tasks[t].parent = 0
     /\ tasks[t].st = "done" /\ tasks[t].res # "ok" /\ tasks[t].wall)
      => tasks[t].res = "auth"


\* C31: when every resolver process ends with a non-zero status, no
\* invocation, structured or single-URL, resolves with a result.
C31_NonZeroExitFails ==
  \A t \in TaskIds :
    (tasks[t].kind \in {"json", "url"} /\ tasks[t].st = "done") => tasks[t].res # "ok"


\* C32: running is the number of jobs the gate admitted that have not
\* settled, and is never negative; a step changes it by the number of jobs
\* admitted in the step minus the number of jobs settled in it, each job
\* being admitted once and settled once; a /healthz reply reports running and
\* the queue length and changes neither.
AdmittedNow ==
  {t \in 1..Len(tasks') :
     /\ tasks'[t].st # "queued"
     /\ t \in TaskIds => tasks[t].st = "queued"}
SettledNow ==
  {t \in TaskIds : tasks[t].st # "done" /\ tasks'[t].st = "done"}
C32_RunningCounts ==
  /\ [](running = Cardinality(Admitted) /\ running >= 0)
  /\ [][/\ running' = running + Cardinality(AdmittedNow) - Cardinality(SettledNow)
        /\ \A t \in TaskIds :
             /\ tasks[t].st # "queued" => tasks'[t].st # "queued"
             /\ tasks[t].st = "done" => tasks'[t].st = "done"
             /\ SettledNow \subseteq Admitted]_vars
  /\ [][ret' # ret =>
          /\ ret' = <<[running |-> running, queued |-> Len(queue),
                       maxYtDlp |-> MAX_YTDLP]>>
          /\ running' = running /\ queue' = queue /\ tasks' = tasks]_vars
C32_Witness ==
  /\ ret # <<>> /\ ret[1].running = 1 /\ running = MAX_YTDLP
  /\ \E t \in TaskIds : tasks[t].st = "done"
  /\ \E t \in TaskIds : tasks[t].st = "waitretry"


\* C33: the gate is work-conserving: whenever a job waits in the queue,
\* every one of the MAX_YTDLP slots is taken.
C33_WorkConserving ==
  Len(queue) > 0 => running = MAX_YTDLP
C33_Witness ==
  /\ Len(queue) > 0 /\ running = MAX_YTDLP
  /\ \E t \in TaskIds : tasks[t].st = "done"
  /\ \E t \in TaskIds : tasks[t].st = "running" /\ t > MAX_YTDLP


\* C34: of the sources that are present and decode, the one chosen shows
\* authentication tokens if any of them does, is among those of greatest
\* decoded length that are eligible, and is the earliest such in the order
\* path, gzip+base64, base64; a source that does not decode is never the one
\* chosen, and when no source decodes there are no credentials.
SourceOrder == <<"PATH", "B64_GZ", "B64">>
SourceOf(env, i) ==
  CASE i = 1 -> env.PATH [] i = 2 -> env.B64_GZ [] i = 3 -> env.B64
Decodable(env) == {i \in 1..3 : SourceOf(env, i).kind = "text"}
ShowsAuth(text) == \E j \in 1..Len(text) : text[j] \in GoogleAuthNames
C34_SourceChoice ==
  ret # <<>> =>
    LET d == Decodable(arg)
        jar(i) == SourceOf(arg, i).text
        eligible == IF \E i \in d : ShowsAuth(jar(i))
                    THEN {i \in d : ShowsAuth(jar(i))} ELSE d
    IN IF d = {}
       THEN ~ret[1].hasCookies /\ ret[1].cookieSource = "NONE"
       ELSE \E i \in eligible :
              /\ ret[1].hasCookies
              /\ ret[1].cookieSource = SourceOrder[i] /\ ret[1].text = jar(i)
              /\ \A j \in eligible : Len(jar(j)) <= Len(jar(i))
              /\ \A j \in eligible : Len(jar(j)) = Len(jar(i)) => i <= j


\* C35: a credential-less retry that waits in the queue can still be
\* admitted: while an invocation waits for its retry, either the retry has a
\* slot or some resolver process is live, whose exit or kill frees one.
\* Otherwise no step ever settles the retry.
C35_RetryAdmitted ==
  \A t \in TaskIds :
    tasks[t].st = "waitretry" =>
      \A u \in Retries(t) : tasks[u].st = "queued" => LiveProcesses # {}


\* C36: a /filterPlayable request that has not been answered can still make
\* progress: some resolver process is live, whose exit or kill frees a slot,
\* or some merge window is open, whose timer ends a resolution.  Otherwise
\* no step ever settles its per-identifier tasks.
C36_FilterResponds ==
  \A r \in ReqIds :
    (reqs[r].ep = "filterPlayable" /\ reqs[r].st # "done") =>
      \/ LiveProcesses # {}
      \/ \E f \in FetchIds : fetches[f].st = "window"


\* C37: a URL whose expiry parameter is a positive number E gets a cache
\* lifetime that ends no later than E: cached at second now with the lifetime
\* computeUrlTtlSec returns, the entry is gone by second E, whatever lifetime
\* the URL had left.
C37_NotServedPastExpiry ==
  ret # <<>> =>
    LET e == ExpiryOf(arg.url)
    IN (arg.url.parses /\ e.kind = "num" /\ e.n > 0) => arg.now + ret[1] <= e.n


\* C38: for /stream, no second resolution of a key starts while an earlier
\* one of that key is running or has succeeded (the cache entry it wrote is
\* still there); and once a resolution has succeeded, a request for its key
\* finds the cache entry or the in-flight entry, in every state.
StreamFetches(k) ==
  {f \in FetchIds : fetches[f].org = "stream" /\ fetches[f].key = k}
C38_NoSecondResolution ==
  /\ [](\A k \in Keys :
          (\E f \in StreamFetches(k) : fetches[f].st = "ok") =>
             (cache[k] # <<>> \/ inflight[k] # 0))
  /\ [][\A f \in 1..Len(fetches') :
          (f \notin FetchIds /\ fetches'[f].org = "stream") =>
             /\ \A g \in StreamFetches(fetches'[f].key) : fetches[g].st = "fail"
             /\ cache[fetches'[f].key] = <<>>
             /\ inflight[fetches'[f].key] = 0]_vars
C38_Witness ==
  /\ Len(reqs) = 2 /\ Len(fetches) = 1
  /\ reqs[1].ep = "stream" /\ reqs[2].ep = "stream"
  /\ KeyOf(reqs[1]) = KeyOf(reqs[2])
  /\ fetches[1].st = "ok" /\ inflight[fetches[1].key] = 0
  /\ reqs[2].st = "done" /\ reqs[2].src = "HIT" /\ reqs[2].status = 200


\* C39: two requests to one endpoint that differ in the identifier, in the
\* credential-bypass flag or in the profile list get different cache keys.
C39_KeysInjective ==
  ret # <<>> => (arg.p # arg.q => ret[1].p # ret[1].q)


\* C40: while one /stream480 or /streamMp4 request is handled the single-URL
\* sequence runs at most once, inside fetchInfoMergedFast or in the route
\* after it, never both; and when the run inside fetchInfoMergedFast obtained
\* a URL the request, once answered, redirects to that URL.
C40_FallbackOnce ==
  \A r \in ReqIds :
    (reqs[r].ep \in {"stream480", "streamMp4"} /\ reqs[r].f \in FetchIds) =>
      /\ ~(Fallbacks(reqs[r].f) # {} /\ ReqFallbacks(r) # {})
      /\ \A t \in Fallbacks(reqs[r].f) :
           (Succeeded(t) /\ reqs[r].st = "done") =>
              (reqs[r].status = 302 /\ reqs[r].body = tasks[t].val)

====
